---- MODULE Spec2Model ----
(***************************************************************************)
(* Device presence and notification subsystem.                             *)
(*                                                                         *)
(* DeviceConnectionService (src/lib/device-connection-service.ts) keeps    *)
(* the in-memory presence table, the per-device heartbeat timers and the   *)
(* status-change bus; DeviceNotificationService                            *)
(* (src/lib/video-stream-service.ts) subscribes to the bus and fans        *)
(* notification messages out over the configured channels.                 *)
(*                                                                         *)
(* The services run on one JavaScript event loop: code between two awaits  *)
(* is one atomic step, and every await is a point where any other handler  *)
(* may run.  Each action below is one such synchronous stretch.            *)
(***************************************************************************)
EXTENDS Integers, Sequences, FiniteSets, TLC

(***************************************************************************)
(* Bounds of the model.                                                    *)
(***************************************************************************)
\* explicit setStatus / updateActivity signals accepted in one behaviour
MaxSignals == 2
\* explicit signals accepted in one behaviour of the dispatcher's specification
NotifySignals == 1
\* number of times the clock advances
MaxAdvances == 3
\* milliseconds the clock advances in one step
TimeStep == 150500
\* explicit signals accepted in one behaviour of the sweeper's specification
SweepSignals == 2
\* number of times the clock jumps ahead by a day in the sweeper's specification
SweepDays == 1
\* milliseconds of one such jump
DayStep == 86400001
\* explicit signals, clock steps and failing store operations in one behaviour of the
\* specification with store failures
FaultSignals == 1
FaultAdvances == 3
MaxFaults == 1
\* explicit signals and heartbeat intervals in one behaviour of the specification with
\* fair scheduling
LiveSignals == 1
LiveIntervals == 7

\* signals and channel faults while the notification tasks run
DeliverSignals == 1
DeliverFaults == 1

\* signals and clock steps with two devices in the store
PairSignals == 2
PairAdvances == 2

\* connects, disconnects and clock steps at the WebSocket adapter
SocketSignals == 3
SocketAdvances == 3

\* signals while the records are counted, two devices in the store
CountSignals == 2

\* messages and signals at the MQTT adapter
MqttSignals == 2

\* signals and days while the notification tasks run
BusySignals == 1
BusyDays == 1

(***************************************************************************)
(* Program constants.                                                      *)
(***************************************************************************)
HEARTBEAT_INTERVAL == 60000
INACTIVE_THRESHOLD == 300000
CLEANUP_INTERVAL == 300000
\* 24 * 60 * 60 * 1000
EVICTION_THRESHOLD == 86400000
MsPerSecond == 1000

\* the value of an optional field that is not set (undefined)
Undefined == -1

Devices == {"d1", "d2"}

\* the devices that have a row in the durable store
KnownDevices == {"d1"}

DeviceConnectionStatus == {"ONLINE", "OFFLINE", "INACTIVE", "ERROR"}

DeviceProtocol == {"MQTT", "TCP", "UDP", "HTTP", "WEBSOCKET", "COAP", "UNKNOWN"}

\* client handles of the modelled transports
ClientHandles == {"h1"}

VARIABLES
    known,          \* devices the durable store holds (prisma.device)
    deviceConnections, \* Map deviceId -> DeviceConnectionInfo
    heartbeatIntervals, \* Map deviceId -> time the armed interval is next due
    calls,          \* setDeviceStatus invocations in flight
    callSeq,        \* number of setDeviceStatus invocations so far
    sessionSeq,     \* number of session ids generated so far
    now,            \* the wall clock, in milliseconds
    bus,            \* everything published: bus events and device-room broadcasts
    connLog,        \* rows written to deviceConnectionLog
    durable,        \* the status field of each device row
    rejected,       \* setDeviceStatus invocations that threw, by call id
    signalsLeft,    \* explicit signals still to arrive
    advancesLeft,   \* clock steps still to happen
    notificationConfigs, \* Map organizationId -> NotificationConfig[]
    tasks,          \* sendDeviceStatusNotification invocations in flight
    deliveries,     \* delivery attempts made, one row per channel send
    audit,          \* NOTIFICATION_SENT rows written to the audit log
    sessionStart,   \* history: when the device's running session entered ONLINE
    ticksApplied,   \* history: heartbeat calls applied since the last explicit signal
    cleanup,        \* the running cleanupInactiveConnections invocation, or idle
    cleanupAt,      \* time the cleanup interval is next due
    faultsLeft,     \* store operations that may still fail
    faults,         \* history: calls one of whose store writes failed, by call id
    escaped         \* rejections no handler caught (unhandled rejections), by call id

registry == <<known, deviceConnections, heartbeatIntervals, calls, callSeq, sessionSeq,
              now, bus, connLog, durable, rejected, signalsLeft, advancesLeft>>

dispatcher == <<notificationConfigs, tasks, deliveries, audit>>

history == <<sessionStart, ticksApplied>>

sweeper == <<cleanup, cleanupAt>>

failures == <<faultsLeft, faults, escaped>>

vars == <<registry, dispatcher, history, sweeper, failures>>

(***************************************************************************)
(* Map helpers.                                                            *)
(***************************************************************************)
MapSet(m, k, v) == [x \in (DOMAIN m) \cup {k} |-> IF x = k THEN v ELSE m[x]]

MapDelete(m, k) == [x \in (DOMAIN m) \ {k} |-> m[x]]

EmptyMap == [x \in {} |-> Undefined]

\* the Partial<DeviceConnectionInfo> a caller passes: fields it does not name are undefined
NoInfo == [lastActivityAt |-> Undefined, clientId |-> "", metadata |-> {}]

\* connectionData before setDeviceStatus has built it
NoData == [sessionId |-> Undefined, connectedAt |-> Undefined, disconnectedAt |-> Undefined,
           connectionDuration |-> Undefined]

(***************************************************************************)
(* setDeviceStatus, lines 125-171: the record built from the signal and    *)
(* the record it replaces.                                                  *)
(***************************************************************************)
\* existingConnection?.connectedAt is set
HasConnectedAt(conns, d) == d \in DOMAIN conns /\ conns[d].connectedAt # Undefined

\* mutant: every ONLINE signal starts a session
EntersOnlineAlways(conns, d) == TRUE

\* mutant: only the first ONLINE signal of a device starts a session
EntersOnlineFirstOnly(conns, d) == d \notin DOMAIN conns

\* !existingConnection || existingConnection.status !== ONLINE
EntersOnline(conns, d) == d \notin DOMAIN conns \/ conns[d].status # "ONLINE"

\* mutant: the duration is left in milliseconds
DurationMillis(from, to) == to - from

\* Math.floor(duration / 1000)
DurationSeconds(from, to) == (to - from) \div MsPerSecond

\* mutant: the signal is merged into the record it finds, which keeps its transport
ConnectionDataMixed(conns, d, status, protocol, info, t, sid) ==
    LET base == [status |-> status,
                 protocol |-> IF d \in DOMAIN conns THEN conns[d].protocol ELSE protocol,
                 lastActivityAt |-> IF info.lastActivityAt # Undefined
                                    THEN info.lastActivityAt ELSE t,
                 clientId |-> IF d \in DOMAIN conns THEN conns[d].clientId ELSE info.clientId,
                 metadata |-> info.metadata,
                 connectedAt |-> Undefined,
                 disconnectedAt |-> Undefined,
                 connectionDuration |-> Undefined,
                 sessionId |-> Undefined]
    IN  IF status = "ONLINE"
        THEN IF EntersOnline(conns, d)
             THEN [base EXCEPT !.connectedAt = t, !.sessionId = sid]
             ELSE [base EXCEPT !.connectedAt = conns[d].connectedAt,
                               !.sessionId = conns[d].sessionId]
        ELSE IF status = "OFFLINE"
        THEN [base EXCEPT !.disconnectedAt = t,
                          !.connectionDuration =
                              IF HasConnectedAt(conns, d)
                              THEN DurationSeconds(conns[d].connectedAt, t)
                              ELSE Undefined]
        ELSE base

\* mutant: the new record starts from the one it replaces and line 152 is left out,
\* so that an ONLINE record keeps the disconnection time of the record before it
ConnectionDataKeepsDisconnect(conns, d, status, protocol, info, t, sid) ==
    LET base == [status |-> status,
                 protocol |-> protocol,
                 lastActivityAt |-> IF info.lastActivityAt # Undefined
                                    THEN info.lastActivityAt ELSE t,
                 clientId |-> info.clientId,
                 metadata |-> info.metadata,
                 connectedAt |-> Undefined,
                 disconnectedAt |-> IF d \in DOMAIN conns
                                    THEN conns[d].disconnectedAt ELSE Undefined,
                 connectionDuration |-> Undefined,
                 sessionId |-> Undefined]
    IN  IF status = "ONLINE"
        THEN IF EntersOnline(conns, d)
             THEN [base EXCEPT !.connectedAt = t, !.sessionId = sid]
             ELSE [base EXCEPT !.connectedAt = conns[d].connectedAt,
                               !.sessionId = conns[d].sessionId]
        ELSE IF status = "OFFLINE"
        THEN [base EXCEPT !.disconnectedAt = t,
                          !.connectionDuration =
                              IF HasConnectedAt(conns, d)
                              THEN DurationSeconds(conns[d].connectedAt, t)
                              ELSE Undefined]
        ELSE base

\* lines 129-168: connectionData
ConnectionData(conns, d, status, protocol, info, t, sid) ==
    LET base == [status |-> status,
                 protocol |-> protocol,
                 lastActivityAt |-> IF info.lastActivityAt # Undefined
                                    THEN info.lastActivityAt ELSE t,
                 clientId |-> info.clientId,
                 metadata |-> info.metadata,
                 connectedAt |-> Undefined,
                 disconnectedAt |-> Undefined,
                 connectionDuration |-> Undefined,
                 sessionId |-> Undefined]
    IN  IF status = "ONLINE"
        THEN IF EntersOnline(conns, d)
             THEN [base EXCEPT !.connectedAt = t, !.sessionId = sid]
             ELSE [base EXCEPT !.connectedAt = conns[d].connectedAt,
                               !.sessionId = conns[d].sessionId]
        ELSE IF status = "OFFLINE"
        THEN [base EXCEPT !.disconnectedAt = t,
                          !.connectionDuration =
                              IF HasConnectedAt(conns, d)
                              THEN DurationSeconds(conns[d].connectedAt, t)
                              ELSE Undefined]
        ELSE base

\* setupHeartbeat: clearHeartbeat, then a new interval, first due one interval from now
SetupHeartbeat(hbs, d, t) == MapSet(hbs, d, t + HEARTBEAT_INTERVAL)

\* mutant: every timer is cleared
ClearHeartbeatAll(hbs, d) == EmptyMap

\* clearHeartbeat
ClearHeartbeat(hbs, d) == MapDelete(hbs, d)

\* mutant: OFFLINE leaves the timer running
HeartbeatsAfterKeepsTimer(hbs, d, status, t) ==
    IF status = "ONLINE" THEN SetupHeartbeat(hbs, d, t)
    ELSE hbs

\* lines 155 and 167: ONLINE arms the timer anew, OFFLINE clears it
HeartbeatsAfter(hbs, d, status, t) ==
    IF status = "ONLINE" THEN SetupHeartbeat(hbs, d, t)
    ELSE IF status = "OFFLINE" THEN ClearHeartbeat(hbs, d)
    ELSE hbs

(***************************************************************************)
(* emitStatusChange.                                                       *)
(***************************************************************************)
\* the status of the record a call replaced, "none" when there was no record
OldStatus(conns, d) == IF d \in DOMAIN conns THEN conns[d].status ELSE "none"

\* mutant: the early return is missing
StatusChangedAlways(old, new) == TRUE

\* mutant: inactivity is announced whenever it is observed
StatusChangedOrInactive(old, new) == old # new \/ new = "INACTIVE"

\* !(oldConnection && oldConnection.status === newConnection.status)
StatusChanged(old, new) == old # new

SpecificEvent(status) ==
    CASE status = "ONLINE" -> "device_online"
      [] status = "OFFLINE" -> "device_offline"
      [] status = "INACTIVE" -> "device_inactive"
      [] status = "ERROR" -> "device_error"

\* the events DeviceNotificationService.setupEventListeners subscribes to
BusEvents == {"status_change", "device_online", "device_offline", "device_inactive",
              "device_error"}

\* what one emitStatusChange publishes, in order
Published(call) ==
    IF StatusChanged(call.old, call.status)
    THEN << [ev |-> "status_change", dev |-> call.dev, status |-> call.status, call |-> call.id],
            [ev |-> SpecificEvent(call.status), dev |-> call.dev, status |-> call.status,
             call |-> call.id],
            [ev |-> "room:device:status_change", dev |-> call.dev, status |-> call.status,
             call |-> call.id] >>
    ELSE << >>

\* the sweeper when no cleanupInactiveConnections invocation is running
Idle == [pc |-> "idle", at |-> 0, todo |-> {}, dev |-> "", snap |-> NoData]

(***************************************************************************)
(* The initial state: the services have just been constructed.             *)
(***************************************************************************)
Constructed ==
    /\ known = KnownDevices
    /\ deviceConnections = EmptyMap
    /\ heartbeatIntervals = EmptyMap
    /\ calls = {}
    /\ callSeq = 0
    /\ sessionSeq = 0
    /\ now = 0
    /\ bus = << >>
    /\ connLog = {}
    /\ durable = [d \in Devices |-> "OFFLINE"]
    /\ rejected = {}
    /\ sessionStart = [d \in Devices |-> Undefined]
    /\ ticksApplied = [d \in Devices |-> {}]
    /\ tasks = {}
    /\ deliveries = {}
    /\ audit = {}
    /\ cleanup = Idle
    /\ cleanupAt = CLEANUP_INTERVAL
    /\ faults = {}
    /\ escaped = {}

\* no organization has set notification configs; the clock runs
Init ==
    /\ Constructed
    /\ notificationConfigs = EmptyMap
    /\ signalsLeft = MaxSignals
    /\ advancesLeft = MaxAdvances
    /\ faultsLeft = 0

(***************************************************************************)
(* setDeviceStatus.                                                        *)
(***************************************************************************)
NewCall(d, status, protocol, info, origin) ==
    [id |-> callSeq + 1, dev |-> d, status |-> status, protocol |-> protocol,
     info |-> info, origin |-> origin, pc |-> "lookup", old |-> "-", data |-> NoData]

\* the fields of connectionData that logConnectionStatus writes to the row
LogFields(conn) ==
    [sessionId |-> conn.sessionId, connectedAt |-> conn.connectedAt,
     disconnectedAt |-> conn.disconnectedAt, connectionDuration |-> conn.connectionDuration]

\* lines 113-120: the call runs up to the await of getDeviceById
Invoke(d, status, protocol, info, origin) ==
    /\ calls' = calls \cup {NewCall(d, status, protocol, info, origin)}
    /\ callSeq' = callSeq + 1

\* a caller (adapter, API route) invokes setDeviceStatus
SetStatus(d, status, protocol, info) ==
    /\ signalsLeft > 0
    /\ signalsLeft' = signalsLeft - 1
    /\ Invoke(d, status, protocol, info, "signal")
    /\ UNCHANGED <<sweeper, failures, known, deviceConnections, heartbeatIntervals, sessionSeq, now, bus,
                   connLog, durable, rejected, advancesLeft,
                   dispatcher, history>>

\* the callers that await setDeviceStatus outside any try block, so that its rejection is
\* caught by nobody: the heartbeat interval callback
Escapes(c) == c.origin = "heartbeat"

\* mutant: the record is stored before the device is checked
RejectAfterStore(c) ==
    /\ c.pc = "lookup"
    /\ c.dev \notin known
    /\ deviceConnections' =
           MapSet(deviceConnections, c.dev,
                  ConnectionData(deviceConnections, c.dev, c.status, c.protocol, c.info,
                                 now, sessionSeq + 1))
    /\ calls' = calls \ {c}
    /\ rejected' = rejected \cup {c.id}
    /\ escaped' = IF Escapes(c) THEN escaped \cup {c.id} ELSE escaped
    /\ UNCHANGED <<sweeper, faultsLeft, faults, known, heartbeatIntervals, callSeq, sessionSeq, now, bus,
                   connLog, durable, signalsLeft, advancesLeft, dispatcher, history>>

\* lines 121-123: getDeviceById resolved to null
Reject(c) ==
    /\ c.pc = "lookup"
    /\ c.dev \notin known
    /\ calls' = calls \ {c}
    /\ rejected' = rejected \cup {c.id}
    /\ escaped' = IF Escapes(c) THEN escaped \cup {c.id} ELSE escaped
    /\ UNCHANGED <<sweeper, faultsLeft, faults, known, deviceConnections, heartbeatIntervals, callSeq, sessionSeq, now, bus,
                   connLog, durable, signalsLeft, advancesLeft,
                   dispatcher, history>>

\* lines 125-171: getDeviceById resolved to the device; up to the await of logConnectionStatus
Apply(c) ==
    /\ c.pc = "lookup"
    /\ c.dev \in known
    /\ LET mint == c.status = "ONLINE" /\ EntersOnline(deviceConnections, c.dev)
           sid == sessionSeq + 1
       IN  /\ deviceConnections' =
                  MapSet(deviceConnections, c.dev,
                         ConnectionData(deviceConnections, c.dev, c.status, c.protocol,
                                        c.info, now, sid))
           /\ sessionSeq' = IF mint THEN sid ELSE sessionSeq
    /\ heartbeatIntervals' = HeartbeatsAfter(heartbeatIntervals, c.dev, c.status, now)
    /\ calls' = (calls \ {c}) \cup
                {[c EXCEPT !.pc = "log", !.old = OldStatus(deviceConnections, c.dev),
                           !.data = LogFields(deviceConnections'[c.dev])]}
    /\ sessionStart' =
           [sessionStart EXCEPT ![c.dev] =
               IF c.status = "ONLINE"
               THEN (IF EntersOnline(deviceConnections, c.dev) THEN now ELSE @)
               ELSE IF c.origin = "heartbeat" THEN @ ELSE Undefined]
    /\ ticksApplied' =
           [ticksApplied EXCEPT ![c.dev] =
               IF c.origin = "heartbeat"
               THEN @ \cup {[id |-> c.id, old |-> OldStatus(deviceConnections, c.dev)]}
               ELSE {}]
    /\ UNCHANGED <<sweeper, failures, known, callSeq, now, bus, connLog, durable, rejected, signalsLeft,
                   advancesLeft, dispatcher>>

\* prisma.deviceConnectionLog.create, lines 625-639
ConnectionLogRow(c) ==
    [dev |-> c.dev, status |-> c.status, call |-> c.id, sessionId |-> c.data.sessionId,
     connectedAt |-> c.data.connectedAt, disconnectedAt |-> c.data.disconnectedAt,
     connectionDuration |-> c.data.connectionDuration]

\* lines 173-174 and 592-665: the connection-log row is written
LogConnectionStatus(c) ==
    /\ c.pc = "log"
    /\ connLog' = connLog \cup {ConnectionLogRow(c)}
    /\ calls' = (calls \ {c}) \cup {[c EXCEPT !.pc = "update"]}
    /\ UNCHANGED <<sweeper, failures, known, deviceConnections, heartbeatIntervals, callSeq, sessionSeq, now, bus,
                   durable, rejected, signalsLeft, advancesLeft,
                   dispatcher, history>>

\* lines 176-177 and 672-685: the device row's status is written
UpdateDeviceStatus(c) ==
    /\ c.pc = "update"
    /\ durable' = [durable EXCEPT ![c.dev] = c.status]
    /\ calls' = (calls \ {c}) \cup {[c EXCEPT !.pc = "emit"]}
    /\ UNCHANGED <<sweeper, failures, known, deviceConnections, heartbeatIntervals, callSeq, sessionSeq, now, bus,
                   connLog, rejected, signalsLeft, advancesLeft,
                   dispatcher, history>>

\* the listeners DeviceNotificationService registered run inside emit: each starts a
\* sendDeviceStatusNotification, which runs up to the await of getDeviceWithOrganization
Listeners(events) ==
    {[call |-> events[i].call, ev |-> events[i].ev, dev |-> events[i].dev,
      status |-> events[i].status, pc |-> "lookup", channels |-> << >>,
      priority |-> "", idx |-> 0] :
        i \in {j \in DOMAIN events : events[j].ev \in BusEvents}}

\* mutant: the listeners are awaited up to their first delivery attempt
EmitStatusChangeAwaitsDelivery(c) ==
    /\ c.pc = "emit"
    /\ bus' = bus \o Published(c)
    /\ tasks' = tasks \cup Listeners(Published(c))
    /\ calls' = calls \ {c}
    /\ deliveries' = deliveries \cup
           {[call |-> t.call, ev |-> t.ev, channel |-> "WEBSOCKET", priority |-> "LOW",
             rooms |-> {}, outcome |-> "sent"] : t \in Listeners(Published(c))}
    /\ UNCHANGED <<sweeper, failures, known, deviceConnections, heartbeatIntervals, callSeq, sessionSeq, now,
                   connLog, durable, rejected, signalsLeft, advancesLeft,
                   notificationConfigs, audit, history>>

\* lines 179-182 and 693-723: emitStatusChange, then the call returns
EmitStatusChange(c) ==
    /\ c.pc = "emit"
    /\ bus' = bus \o Published(c)
    /\ tasks' = tasks \cup Listeners(Published(c))
    /\ calls' = calls \ {c}
    /\ UNCHANGED <<sweeper, failures, known, deviceConnections, heartbeatIntervals, callSeq, sessionSeq, now,
                   connLog, durable, rejected, signalsLeft, advancesLeft,
                   notificationConfigs, deliveries, audit, history>>

(***************************************************************************)
(* updateDeviceActivity, lines 190-209.                                    *)
(***************************************************************************)
\* mutant: activity brings the device back ONLINE
ActivityRecordRevives(conn, metadata, t) ==
    [conn EXCEPT !.lastActivityAt = t, !.metadata = conn.metadata \cup metadata,
                 !.status = "ONLINE"]

\* lines 196-205: the record with the activity merged in
ActivityRecord(conn, metadata, t) ==
    [conn EXCEPT !.lastActivityAt = t, !.metadata = conn.metadata \cup metadata]

\* mutant: activity for a device without a record creates one
ActivityUpsert(conns, d, metadata, t) ==
    IF d \notin DOMAIN conns
    THEN MapSet(conns, d, ConnectionData(conns, d, "ONLINE", "UNKNOWN",
                                          [NoInfo EXCEPT !.metadata = metadata], t, Undefined))
    ELSE MapSet(conns, d, ActivityRecord(conns[d], metadata, t))

\* if (!connection) return; otherwise the record with the activity merged in
ActivityUpdate(conns, d, metadata, t) ==
    IF d \notin DOMAIN conns THEN conns
    ELSE MapSet(conns, d, ActivityRecord(conns[d], metadata, t))

UpdateDeviceActivity(d, metadata) ==
    /\ signalsLeft > 0
    /\ signalsLeft' = signalsLeft - 1
    /\ deviceConnections' = ActivityUpdate(deviceConnections, d, metadata, now)
    /\ ticksApplied' = [ticksApplied EXCEPT ![d] = {}]
    /\ UNCHANGED <<sweeper, failures, known, heartbeatIntervals, calls, callSeq, sessionSeq, now, bus, connLog,
                   durable, rejected, advancesLeft, sessionStart, dispatcher>>

(***************************************************************************)
(* The heartbeat interval callback, lines 275-301.                         *)
(***************************************************************************)
\* mutant: a device is given one threshold more
StaleLate(conn, t) == t - conn.lastActivityAt > 2 * INACTIVE_THRESHOLD

\* inactiveTime > this.INACTIVE_THRESHOLD
Stale(conn, t) == t - conn.lastActivityAt > INACTIVE_THRESHOLD

HeartbeatInfo(conn) ==
    [lastActivityAt |-> conn.lastActivityAt, clientId |-> "",
     metadata |-> conn.metadata \cup {"inactiveReason"}]

HeartbeatTick(d) ==
    /\ d \in DOMAIN heartbeatIntervals
    /\ heartbeatIntervals[d] <= now
    /\ IF d \notin DOMAIN deviceConnections
       THEN /\ heartbeatIntervals' = ClearHeartbeat(heartbeatIntervals, d)
            /\ UNCHANGED <<calls, callSeq>>
       ELSE /\ heartbeatIntervals' = [heartbeatIntervals EXCEPT ![d] = now + HEARTBEAT_INTERVAL]
            /\ IF Stale(deviceConnections[d], now)
               THEN Invoke(d, "INACTIVE", deviceConnections[d].protocol,
                           HeartbeatInfo(deviceConnections[d]), "heartbeat")
               ELSE UNCHANGED <<calls, callSeq>>
    /\ UNCHANGED <<sweeper, failures, known, deviceConnections, sessionSeq, now, bus, connLog, durable, rejected,
                   signalsLeft, advancesLeft,
                   dispatcher, history>>

(***************************************************************************)
(* The clock.  One step is minutes long, store round trips take            *)
(* milliseconds: the clock moves on when no call is in flight and no       *)
(* interval callback is due.                                               *)
(***************************************************************************)
Advance ==
    /\ advancesLeft > 0
    /\ calls = {}
    /\ \A d \in DOMAIN heartbeatIntervals : heartbeatIntervals[d] > now
    /\ now' = now + TimeStep
    /\ advancesLeft' = advancesLeft - 1
    /\ UNCHANGED <<sweeper, failures, known, deviceConnections, heartbeatIntervals, calls, callSeq, sessionSeq,
                   bus, connLog, durable, rejected, signalsLeft,
                   dispatcher, history>>

(***************************************************************************)
(* cleanupInactiveConnections, lines 335-376, run by the cleanup interval  *)
(* (lines 322-329).  The scan and the first get are one synchronous        *)
(* stretch; every iteration of the second loop awaits the connection-log   *)
(* write before it deletes the record.                                     *)
(***************************************************************************)
\* lines 340-349: the devices the scan collects
DevicesToCleanup(conns, t) ==
    {d \in DOMAIN conns :
        /\ conns[d].status \in {"INACTIVE", "ERROR"}
        /\ t - conns[d].lastActivityAt > EVICTION_THRESHOLD}

\* lines 353-369: the iteration on device d starts; the record is read and the log write
\* is issued with the copy made of it
CleanupIteration(conns, t, todo, d) ==
    [pc |-> "log", at |-> t, todo |-> todo \ {d}, dev |-> d, snap |-> conns[d]]

\* the loop, from its head: devices without a record are skipped; the order among the
\* devices collected is the Map's, any order here
CleanupLoop(conns, t, todo) ==
    LET rest == {d \in todo : d \in DOMAIN conns}
    IN  IF rest = {} THEN {Idle}
        ELSE {CleanupIteration(conns, t, rest, d) : d \in rest}

\* mutant: the row of the forced transition names no reason
CleanupLogRowPlain(cl) ==
    [dev |-> cl.dev, status |-> "OFFLINE", call |-> 0, sessionId |-> cl.snap.sessionId,
     connectedAt |-> cl.snap.connectedAt, disconnectedAt |-> cl.at,
     connectionDuration |-> cl.snap.connectionDuration,
     metadata |-> cl.snap.metadata]

\* lines 356-369: the row logConnectionStatus writes for the forced transition
CleanupLogRow(cl) ==
    [dev |-> cl.dev, status |-> "OFFLINE", call |-> 0, sessionId |-> cl.snap.sessionId,
     connectedAt |-> cl.snap.connectedAt, disconnectedAt |-> cl.at,
     connectionDuration |-> cl.snap.connectionDuration,
     metadata |-> cl.snap.metadata \cup {"cleanupReason"}]

\* the cleanup interval fires: the scan, and the loop up to its first await
CleanupScan ==
    /\ cleanup.pc = "idle"
    /\ cleanupAt <= now
    /\ cleanupAt' = now + CLEANUP_INTERVAL
    /\ cleanup' \in CleanupLoop(deviceConnections, now,
                                DevicesToCleanup(deviceConnections, now))
    /\ UNCHANGED <<registry, dispatcher, history, failures>>

\* prisma.deviceConnectionLog.create of the forced transition completes
CleanupLog ==
    /\ cleanup.pc = "log"
    /\ connLog' = connLog \cup {CleanupLogRow(cleanup)}
    /\ cleanup' = [cleanup EXCEPT !.pc = "evict"]
    /\ UNCHANGED <<known, deviceConnections, heartbeatIntervals, calls, callSeq, sessionSeq,
                   now, bus, durable, rejected, signalsLeft, advancesLeft, cleanupAt,
                   dispatcher, history, failures>>

\* lines 372-373: the record is deleted and the timer cleared; then the next iteration
CleanupEvict ==
    /\ cleanup.pc = "evict"
    /\ deviceConnections' = MapDelete(deviceConnections, cleanup.dev)
    /\ heartbeatIntervals' = ClearHeartbeat(heartbeatIntervals, cleanup.dev)
    /\ cleanup' \in CleanupLoop(deviceConnections', cleanup.at, cleanup.todo)
    /\ sessionStart' = [sessionStart EXCEPT ![cleanup.dev] = Undefined]
    /\ ticksApplied' = [ticksApplied EXCEPT ![cleanup.dev] = {}]
    /\ UNCHANGED <<known, calls, callSeq, sessionSeq, now, bus, connLog, durable, rejected,
                   signalsLeft, advancesLeft, cleanupAt, dispatcher, failures>>

\* a day passes: no call and no cleanup is in flight and no interval callback is due
AdvanceDay ==
    /\ advancesLeft > 0
    /\ calls = {}
    /\ cleanup.pc = "idle"
    /\ cleanupAt > now
    /\ \A d \in DOMAIN heartbeatIntervals : heartbeatIntervals[d] > now
    /\ now' = now + DayStep
    /\ advancesLeft' = advancesLeft - 1
    /\ UNCHANGED <<known, deviceConnections, heartbeatIntervals, calls, callSeq, sessionSeq,
                   bus, connLog, durable, rejected, signalsLeft,
                   dispatcher, history, sweeper, failures>>

\* one heartbeat interval passes
AdvanceInterval ==
    /\ advancesLeft > 0
    /\ calls = {}
    /\ \A d \in DOMAIN heartbeatIntervals : heartbeatIntervals[d] > now
    /\ now' = now + HEARTBEAT_INTERVAL
    /\ advancesLeft' = advancesLeft - 1
    /\ UNCHANGED <<known, deviceConnections, heartbeatIntervals, calls, callSeq, sessionSeq,
                   bus, connLog, durable, rejected, signalsLeft,
                   dispatcher, history, sweeper, failures>>

(***************************************************************************)
(* Failing store operations.                                               *)
(***************************************************************************)
\* lines 738-747 and 121-123: prisma.device.findUnique fails, getDeviceById logs the error
\* and returns null, setDeviceStatus throws
LookupFails(c) ==
    /\ c.pc = "lookup"
    /\ c.dev \in known
    /\ faultsLeft > 0
    /\ faultsLeft' = faultsLeft - 1
    /\ calls' = calls \ {c}
    /\ rejected' = rejected \cup {c.id}
    /\ escaped' = IF Escapes(c) THEN escaped \cup {c.id} ELSE escaped
    /\ UNCHANGED <<known, deviceConnections, heartbeatIntervals, callSeq, sessionSeq, now, bus,
                   connLog, durable, signalsLeft, advancesLeft, faults,
                   dispatcher, history, sweeper>>

\* mutant: the failure of the connection-log write ends the call with an error
LogConnectionStatusThrows(c) ==
    /\ c.pc = "log"
    /\ faultsLeft > 0
    /\ faultsLeft' = faultsLeft - 1
    /\ faults' = faults \cup {c.id}
    /\ calls' = calls \ {c}
    /\ rejected' = rejected \cup {c.id}
    /\ UNCHANGED <<known, deviceConnections, heartbeatIntervals, callSeq, sessionSeq, now, bus,
                   connLog, durable, signalsLeft, advancesLeft, escaped,
                   dispatcher, history, sweeper>>

\* lines 598 and 662-664: prisma.deviceConnectionLog.create fails; the catch logs the
\* error and logConnectionStatus returns
LogConnectionStatusFails(c) ==
    /\ c.pc = "log"
    /\ faultsLeft > 0
    /\ faultsLeft' = faultsLeft - 1
    /\ faults' = faults \cup {c.id}
    /\ calls' = (calls \ {c}) \cup {[c EXCEPT !.pc = "update"]}
    /\ UNCHANGED <<known, deviceConnections, heartbeatIntervals, callSeq, sessionSeq, now, bus,
                   connLog, durable, rejected, signalsLeft, advancesLeft, escaped,
                   dispatcher, history, sweeper>>

\* lines 673 and 682-684: prisma.device.update fails; the catch logs the error and
\* updateDeviceStatus returns
UpdateDeviceStatusFails(c) ==
    /\ c.pc = "update"
    /\ faultsLeft > 0
    /\ faultsLeft' = faultsLeft - 1
    /\ faults' = faults \cup {c.id}
    /\ calls' = (calls \ {c}) \cup {[c EXCEPT !.pc = "emit"]}
    /\ UNCHANGED <<known, deviceConnections, heartbeatIntervals, callSeq, sessionSeq, now, bus,
                   connLog, durable, rejected, signalsLeft, advancesLeft, escaped,
                   dispatcher, history, sweeper>>

(***************************************************************************)
(* DeviceNotificationService.                                              *)
(***************************************************************************)
NotificationChannel == {"WEBSOCKET", "EMAIL", "SMS", "PUSH", "WEBHOOK"}

NotificationPriority == {"LOW", "MEDIUM", "HIGH", "CRITICAL"}

\* sendDeviceStatusNotification, lines 444-461
NotificationType(status) ==
    CASE status = "ONLINE" -> "DEVICE_ONLINE"
      [] status = "OFFLINE" -> "DEVICE_OFFLINE"
      [] status = "INACTIVE" -> "DEVICE_INACTIVE"
      [] status = "ERROR" -> "DEVICE_ERROR"

Config(type, channels, priority, enabled) ==
    [type |-> type, channels |-> channels, priority |-> priority, enabled |-> enabled]

\* loadDefaultConfigs
DefaultConfigs ==
    << Config("DEVICE_ONLINE", <<"WEBSOCKET">>, "LOW", TRUE),
       Config("DEVICE_OFFLINE", <<"WEBSOCKET">>, "MEDIUM", TRUE),
       Config("DEVICE_INACTIVE", <<"WEBSOCKET", "EMAIL">>, "MEDIUM", TRUE),
       Config("DEVICE_ERROR", <<"WEBSOCKET", "EMAIL">>, "HIGH", TRUE),
       Config("DEVICE_ALARM", <<"WEBSOCKET", "EMAIL", "SMS">>, "HIGH", TRUE),
       Config("DEVICE_COMMAND_RESPONSE", <<"WEBSOCKET">>, "LOW", TRUE),
       Config("DEVICE_DATA_ANOMALY", <<"WEBSOCKET", "EMAIL">>, "MEDIUM", TRUE),
       Config("SYSTEM_ERROR", <<"WEBSOCKET", "EMAIL">>, "CRITICAL", TRUE) >>

\* device.organizationId: every device row names its organization
OrganizationOf(d) == "org1"

\* getNotificationConfigs: this.notificationConfigs.get(organizationId) || this.defaultConfigs
GetNotificationConfigs(cfgs, org) == IF org \in DOMAIN cfgs THEN cfgs[org] ELSE DefaultConfigs

\* mutant: a disabled config matches too
MatchingConfigIgnoresEnabled(configs, type) ==
    LET hits == {i \in DOMAIN configs : configs[i].type = type}
    IN  IF hits = {} THEN 0 ELSE CHOOSE i \in hits : \A j \in hits : i <= j

\* configs.find(config => config.type === notificationType && config.enabled): its index, or 0
MatchingConfig(configs, type) ==
    LET hits == {i \in DOMAIN configs : configs[i].type = type /\ configs[i].enabled}
    IN  IF hits = {} THEN 0 ELSE CHOOSE i \in hits : \A j \in hits : i <= j

\* sendWebSocketNotification: the rooms the message is broadcast to
WebSocketRooms(dev, org, priority) ==
    {"device:" \o dev, "organization:" \o org}
    \cup (IF priority \in {"HIGH", "CRITICAL"} THEN {"notifications"} ELSE {})

\* sendNotification, one iteration of the loop: the delivery attempt on a channel
Delivery(t, channel, priority) ==
    [call |-> t.call, ev |-> t.ev, channel |-> channel, priority |-> priority,
     rooms |-> IF channel = "WEBSOCKET"
               THEN WebSocketRooms(t.dev, OrganizationOf(t.dev), priority)
               ELSE {},
     outcome |-> "sent"]

\* mutant: HIGH is logged as critical
AuditLevelRaised(priority) ==
    CASE priority = "CRITICAL" -> "critical"
      [] priority = "HIGH" -> "critical"
      [] priority = "MEDIUM" -> "warning"
      [] OTHER -> "info"

\* logNotification: the audit level of a message
AuditLevel(priority) ==
    CASE priority = "CRITICAL" -> "critical"
      [] priority = "HIGH" -> "error"
      [] priority = "MEDIUM" -> "warning"
      [] OTHER -> "info"

\* a task after the delivery attempt on the first of its remaining channels
Delivered(t) ==
    [t EXCEPT !.channels = Tail(t.channels),
              !.pc = IF Len(t.channels) = 1 THEN "log" ELSE "send"]

\* lines 436-502 and 516-525: the device lookup resolved; the config is looked up, the
\* message is built and sendNotification makes the delivery attempt on the first channel
ResolveNotification(t) ==
    /\ t.pc = "lookup"
    /\ LET configs == GetNotificationConfigs(notificationConfigs, OrganizationOf(t.dev))
           i == MatchingConfig(configs, NotificationType(t.status))
       IN  IF t.dev \notin known \/ i = 0
           THEN /\ tasks' = tasks \ {t}
                /\ UNCHANGED deliveries
           ELSE LET m == [t EXCEPT !.channels = configs[i].channels,
                                   !.priority = configs[i].priority]
                IN  IF m.channels = << >>
                    THEN /\ tasks' = (tasks \ {t}) \cup {[m EXCEPT !.pc = "log"]}
                         /\ UNCHANGED deliveries
                    ELSE /\ tasks' = (tasks \ {t}) \cup {Delivered(m)}
                         /\ deliveries' = deliveries \cup
                                {Delivery(m, Head(m.channels), m.priority)}
    /\ UNCHANGED <<sweeper, failures, registry, notificationConfigs, audit, history>>

\* lines 522-540: the next iteration of sendNotification's loop
DeliverNext(t) ==
    /\ t.pc = "send"
    /\ tasks' = (tasks \ {t}) \cup {Delivered(t)}
    /\ deliveries' = deliveries \cup {Delivery(t, Head(t.channels), t.priority)}
    /\ UNCHANGED <<sweeper, failures, registry, notificationConfigs, audit, history>>

\* lines 504-505 and 738-765: the dispatch is recorded in the audit log
LogNotification(t) ==
    /\ t.pc = "log"
    /\ audit' = audit \cup {[call |-> t.call, ev |-> t.ev, level |-> AuditLevel(t.priority)]}
    /\ tasks' = tasks \ {t}
    /\ UNCHANGED <<sweeper, failures, registry, notificationConfigs, deliveries, history>>

(***************************************************************************)
(* Failing and hanging channels.  Every send*Notification wraps its body   *)
(* in try/catch (lines 657-732); sendNotification awaits each of them in   *)
(* turn (lines 522-540) and sets no timer on the wait.                     *)
(***************************************************************************)
\* lines 463-499: whether a config matches the task's transition
Matched(t) ==
    /\ t.dev \in known
    /\ MatchingConfig(GetNotificationConfigs(notificationConfigs, OrganizationOf(t.dev)),
                      NotificationType(t.status)) # 0

\* lines 476-499: the task with the channels and the priority of the matching config
Addressed(t) ==
    LET configs == GetNotificationConfigs(notificationConfigs, OrganizationOf(t.dev))
        i == MatchingConfig(configs, NotificationType(t.status))
    IN  [t EXCEPT !.channels = configs[i].channels, !.priority = configs[i].priority]

\* lines 659-672: the rooms a message may have reached when a broadcastToRoom throws
RoomsBeforeFailure(dev, org, priority) ==
    {{}, {"device:" \o dev}}
    \cup (IF priority \in {"HIGH", "CRITICAL"}
          THEN {{"device:" \o dev, "organization:" \o org}} ELSE {})

\* the catch of a send*Notification: the attempt failed, the error is logged
FailedDelivery(t, channel, priority, rooms) ==
    [Delivery(t, channel, priority) EXCEPT !.outcome = "failed", !.rooms = rooms]

FailedDeliveries(t, channel, priority) ==
    {FailedDelivery(t, channel, priority, rooms) :
        rooms \in IF channel = "WEBSOCKET"
                  THEN RoomsBeforeFailure(t.dev, OrganizationOf(t.dev), priority)
                  ELSE {{}}}

\* an attempt whose promise has not settled
PendingDelivery(t, channel, priority) ==
    [Delivery(t, channel, priority) EXCEPT !.outcome = "pending", !.rooms = {}]

\* the channels whose attempt may stay pending: the body of sendWebSocketNotification is
\* synchronous, the other senders stand for calls to external services
RemoteChannels == NotificationChannel \ {"WEBSOCKET"}

\* a task whose sendNotification waits for an attempt that does not complete
Hung(t) == [t EXCEPT !.pc = "hung"]

\* as ResolveNotification, the attempt on the first channel failing
ResolveNotificationFails(t) ==
    /\ t.pc = "lookup"
    /\ Matched(t)
    /\ Addressed(t).channels # << >>
    /\ faultsLeft > 0
    /\ faultsLeft' = faultsLeft - 1
    /\ LET m == Addressed(t)
       IN  /\ tasks' = (tasks \ {t}) \cup {Delivered(m)}
           /\ \E r \in FailedDeliveries(m, Head(m.channels), m.priority) :
                  deliveries' = deliveries \cup {r}
    /\ UNCHANGED <<sweeper, faults, escaped, registry, notificationConfigs, audit, history>>

\* mutant: the failure of an attempt ends sendNotification
DeliverNextFailsAborts(t) ==
    /\ t.pc = "send"
    /\ faultsLeft > 0
    /\ faultsLeft' = faultsLeft - 1
    /\ tasks' = tasks \ {t}
    /\ \E r \in FailedDeliveries(t, Head(t.channels), t.priority) :
           deliveries' = deliveries \cup {r}
    /\ UNCHANGED <<sweeper, faults, escaped, registry, notificationConfigs, audit, history>>

\* as DeliverNext, the attempt failing
DeliverNextFails(t) ==
    /\ t.pc = "send"
    /\ faultsLeft > 0
    /\ faultsLeft' = faultsLeft - 1
    /\ tasks' = (tasks \ {t}) \cup {Delivered(t)}
    /\ \E r \in FailedDeliveries(t, Head(t.channels), t.priority) :
           deliveries' = deliveries \cup {r}
    /\ UNCHANGED <<sweeper, faults, escaped, registry, notificationConfigs, audit, history>>

\* as ResolveNotification, the attempt on the first channel never completing
ResolveNotificationHangs(t) ==
    /\ t.pc = "lookup"
    /\ Matched(t)
    /\ Addressed(t).channels # << >>
    /\ Head(Addressed(t).channels) \in RemoteChannels
    /\ faultsLeft > 0
    /\ faultsLeft' = faultsLeft - 1
    /\ LET m == Addressed(t)
       IN  /\ tasks' = (tasks \ {t}) \cup {Hung(m)}
           /\ deliveries' = deliveries \cup
                  {PendingDelivery(m, Head(m.channels), m.priority)}
    /\ UNCHANGED <<sweeper, faults, escaped, registry, notificationConfigs, audit, history>>

\* as DeliverNext, the attempt never completing
DeliverNextHangs(t) ==
    /\ t.pc = "send"
    /\ Head(t.channels) \in RemoteChannels
    /\ faultsLeft > 0
    /\ faultsLeft' = faultsLeft - 1
    /\ tasks' = (tasks \ {t}) \cup {Hung(t)}
    /\ deliveries' = deliveries \cup {PendingDelivery(t, Head(t.channels), t.priority)}
    /\ UNCHANGED <<sweeper, faults, escaped, registry, notificationConfigs, audit, history>>

(***************************************************************************)
(* The MQTT adapter: MqttClientService (src/lib/mqtt-client.ts) keeps the   *)
(* handlers by the topic string they were subscribed with and emits a      *)
(* 'message' event for every message; DeviceConnectionService subscribes   *)
(* its handlers once the client is connected.  A topic is the sequence of  *)
(* its levels.                                                             *)
(***************************************************************************)
Topic(d, leaf) == <<"devices", d, leaf>>

\* setupMqttSubscriptions: the topics this.subscriptions holds a handler for
Subscriptions == {Topic("+", "status"), Topic("+", "lwt")}

\* handleMessage: this.subscriptions.get(topic), the key the handler is stored under or << >>
SubscriptionOf(subs, topic) == IF topic \in subs THEN topic ELSE << >>

\* extractDeviceIdFromTopic: topic.match(/^devices\/([^\/]+)/)
ExtractDeviceIdFromTopic(topic) ==
    IF Len(topic) >= 2 /\ topic[1] = "devices" /\ topic[2] # "" THEN topic[2] ELSE ""

\* connectionInfo of the last-will handler
LwtInfo == [NoInfo EXCEPT !.metadata = {"lwtMessage", "lwtTimestamp"}]

\* the handlers of setupMqttSubscriptions: the setDeviceStatus call a handler makes for a
\* message, as <<status, connectionInfo>>, or << >> when it makes none
HandlerCall(key, dev, payload) ==
    CASE key = Topic("+", "lwt") -> <<"OFFLINE", LwtInfo>>
      [] key = Topic("+", "status") /\ payload = "online" /\ dev \in known ->
             <<"ONLINE", NoInfo>>
      [] key = Topic("+", "status") /\ payload = "offline" -> <<"OFFLINE", NoInfo>>
      [] OTHER -> << >>

\* the client receives a message: handleMessage runs the handler stored under the topic,
\* if any, and emits 'message', whose listener records the device's activity
MqttMessage(topic, payload) ==
    /\ signalsLeft > 0
    /\ signalsLeft' = signalsLeft - 1
    /\ LET key == SubscriptionOf(Subscriptions, topic)
           dev == ExtractDeviceIdFromTopic(topic)
           call == IF key = << >> \/ dev = "" THEN << >> ELSE HandlerCall(key, dev, payload)
       IN  /\ IF call = << >>
              THEN UNCHANGED <<calls, callSeq>>
              ELSE Invoke(dev, call[1], "MQTT", call[2], "signal")
           /\ IF dev = ""
              THEN UNCHANGED <<deviceConnections, ticksApplied>>
              ELSE /\ deviceConnections' =
                          ActivityUpdate(deviceConnections, dev, {"lastMessage"}, now)
                   /\ ticksApplied' = [ticksApplied EXCEPT ![dev] = {}]
    /\ UNCHANGED <<sweeper, failures, known, heartbeatIntervals, sessionSeq, now, bus,
                   connLog, durable, rejected, advancesLeft, sessionStart, dispatcher>>

(***************************************************************************)
(* The counts over the records, lines 232-264.                             *)
(***************************************************************************)
\* lines 234-238: the loop over deviceConnections.values(), count++ for an ONLINE record
RECURSIVE CountOnline(_, _)
CountOnline(conns, keys) ==
    IF keys = {} THEN 0
    ELSE LET d == CHOOSE k \in keys : TRUE
         IN  (IF conns[d].status = "ONLINE" THEN 1 ELSE 0) + CountOnline(conns, keys \ {d})

\* getOnlineDeviceCount
GetOnlineDeviceCount(conns) == CountOnline(conns, DOMAIN conns)

\* lines 247-261: stats starts at 0 for every protocol; stats[connection.protocol]++ for
\* an ONLINE record
RECURSIVE StatsOver(_, _)
StatsOver(conns, keys) ==
    IF keys = {} THEN [p \in DeviceProtocol |-> 0]
    ELSE LET d == CHOOSE k \in keys : TRUE
             rest == StatsOver(conns, keys \ {d})
         IN  IF conns[d].status = "ONLINE"
             THEN [rest EXCEPT ![conns[d].protocol] = @ + 1]
             ELSE rest

\* mutant: the check of the status at line 258 is missing
GetDeviceConnectionStatsOfAll(conns) ==
    [p \in DeviceProtocol |-> Cardinality({d \in DOMAIN conns : conns[d].protocol = p})]

\* getDeviceConnectionStatsByProtocol
GetDeviceConnectionStatsByProtocol(conns) == StatsOver(conns, DOMAIN conns)

(***************************************************************************)
(* The WebSocket adapter, lines 440-482.                                   *)
(***************************************************************************)
\* lines 470-471: the records the disconnect handler's loop matches
HeldBy(conns, h) ==
    {d \in DOMAIN conns : conns[d].protocol = "WEBSOCKET" /\ conns[d].clientId = h}

\* websocketService 'connection': the device named by the handshake is set ONLINE
Connect(d, h) == SetStatus(d, "ONLINE", "WEBSOCKET", [NoInfo EXCEPT !.clientId = h])

\* websocketService 'disconnect': the first record held by the client is set OFFLINE
\* (the order among several is the Map's, any order here); the loop ends there
Disconnect(h) ==
    /\ signalsLeft > 0
    /\ signalsLeft' = signalsLeft - 1
    /\ IF HeldBy(deviceConnections, h) = {}
       THEN UNCHANGED <<calls, callSeq>>
       ELSE \E d \in HeldBy(deviceConnections, h) :
                Invoke(d, "OFFLINE", "WEBSOCKET", NoInfo, "signal")
    /\ UNCHANGED <<sweeper, failures, known, deviceConnections, heartbeatIntervals, sessionSeq,
                   now, bus, connLog, durable, rejected, advancesLeft, dispatcher, history>>

(***************************************************************************)
(* The inputs.                                                             *)
(***************************************************************************)
\* the signals adapters and direct callers send: <<status, protocol, details>>
Signals ==
    {<<"ONLINE", "WEBSOCKET", [NoInfo EXCEPT !.clientId = h]>> : h \in ClientHandles}
    \cup {<<s, "MQTT", NoInfo>> : s \in DeviceConnectionStatus}
    \cup {<<"OFFLINE", "WEBSOCKET", NoInfo>>}

ActivityPatches == {{}, {"lastMessage"}}

Next ==
    \/ \E d \in Devices, s \in Signals : SetStatus(d, s[1], s[2], s[3])
    \/ \E d \in Devices, m \in ActivityPatches : UpdateDeviceActivity(d, m)
    \/ \E c \in calls : Reject(c)
    \/ \E c \in calls : Apply(c)
    \/ \E c \in calls : LogConnectionStatus(c)
    \/ \E c \in calls : UpdateDeviceStatus(c)
    \/ \E c \in calls : EmitStatusChange(c)
    \/ \E d \in Devices : HeartbeatTick(d)
    \/ Advance

Spec == Init /\ [][Next]_vars

(***************************************************************************)
(* The dispatcher at work: an organization has set its configs with        *)
(* setNotificationConfigs, signals arrive and the notification tasks run.  *)
(***************************************************************************)
OrgChannelLists == {<<"EMAIL", "SMS">>, <<"WEBSOCKET", "EMAIL">>, <<"EMAIL">>}

OrgConfigLists ==
    {<<Config("DEVICE_OFFLINE", ch, pr, en)>> :
        ch \in OrgChannelLists, pr \in NotificationPriority, en \in BOOLEAN}

InitNotify ==
    /\ Constructed
    /\ notificationConfigs \in
           {EmptyMap} \cup {[o \in {"org1"} |-> cfgs] : cfgs \in OrgConfigLists}
    /\ signalsLeft = NotifySignals
    /\ advancesLeft = 0
    /\ faultsLeft = 0

NextNotify ==
    \/ \E d \in Devices, s \in Signals : SetStatus(d, s[1], s[2], s[3])
    \/ \E c \in calls : Reject(c)
    \/ \E c \in calls : Apply(c)
    \/ \E c \in calls : LogConnectionStatus(c)
    \/ \E c \in calls : UpdateDeviceStatus(c)
    \/ \E c \in calls : EmitStatusChange(c)
    \/ \E t \in tasks : ResolveNotification(t)
    \/ \E t \in tasks : DeliverNext(t)
    \/ \E t \in tasks : LogNotification(t)

SpecNotify == InitNotify /\ [][NextNotify]_vars

(***************************************************************************)
(* The sweeper at work: the clock jumps by days and the cleanup interval   *)
(* fires.  Within the horizon of Spec (MaxAdvances steps of TimeStep, far  *)
(* less than a day) a cleanup finds nothing to collect and changes no      *)
(* state, which is why Spec leaves it out.                                 *)
(***************************************************************************)
InitSweep ==
    /\ Constructed
    /\ notificationConfigs = EmptyMap
    /\ signalsLeft = SweepSignals
    /\ advancesLeft = SweepDays
    /\ faultsLeft = 0

\* the signals of this specification: every status, over one transport
SweepInputs == {s \in Signals : s[2] = "MQTT"}

\* signals arrive for the devices the store holds: others never get a record
NextSweep ==
    \/ \E d \in KnownDevices, s \in SweepInputs : SetStatus(d, s[1], s[2], s[3])
    \/ \E d \in KnownDevices : UpdateDeviceActivity(d, {"lastMessage"})
    \/ \E c \in calls : Apply(c)
    \/ \E c \in calls : LogConnectionStatus(c)
    \/ \E c \in calls : UpdateDeviceStatus(c)
    \/ \E c \in calls : EmitStatusChange(c)
    \/ \E d \in Devices : HeartbeatTick(d)
    \/ CleanupScan
    \/ CleanupLog
    \/ CleanupEvict
    \/ AdvanceDay

SpecSweep == InitSweep /\ [][NextSweep]_vars

(***************************************************************************)
(* Store operations may fail.                                              *)
(***************************************************************************)
InitFaults ==
    /\ Constructed
    /\ notificationConfigs = EmptyMap
    /\ signalsLeft = FaultSignals
    /\ advancesLeft = FaultAdvances
    /\ faultsLeft = MaxFaults

NextFaults ==
    \/ \E d \in Devices, s \in Signals : SetStatus(d, s[1], s[2], s[3])
    \/ \E d \in Devices, m \in ActivityPatches : UpdateDeviceActivity(d, m)
    \/ \E c \in calls : Reject(c)
    \/ \E c \in calls : LookupFails(c)
    \/ \E c \in calls : Apply(c)
    \/ \E c \in calls : LogConnectionStatus(c)
    \/ \E c \in calls : LogConnectionStatusFails(c)
    \/ \E c \in calls : UpdateDeviceStatus(c)
    \/ \E c \in calls : UpdateDeviceStatusFails(c)
    \/ \E c \in calls : EmitStatusChange(c)
    \/ \E d \in Devices : HeartbeatTick(d)
    \/ Advance

SpecFaults == InitFaults /\ [][NextFaults]_vars

(***************************************************************************)
(* Fair scheduling: the clock moves in heartbeat intervals, due interval   *)
(* callbacks run and store operations complete.  Signals are under no      *)
(* obligation to arrive.                                                   *)
(***************************************************************************)
InitLive ==
    /\ Constructed
    /\ notificationConfigs = EmptyMap
    /\ signalsLeft = LiveSignals
    /\ advancesLeft = LiveIntervals
    /\ faultsLeft = 0

Completes ==
    \E c \in calls :
        \/ Reject(c)
        \/ Apply(c)
        \/ LogConnectionStatus(c)
        \/ UpdateDeviceStatus(c)
        \/ EmitStatusChange(c)

NextLive ==
    \/ \E d \in Devices, s \in Signals : SetStatus(d, s[1], s[2], s[3])
    \/ \E d \in Devices, m \in ActivityPatches : UpdateDeviceActivity(d, m)
    \/ Completes
    \/ \E d \in Devices : HeartbeatTick(d)
    \/ AdvanceInterval

SpecLive ==
    /\ InitLive
    /\ [][NextLive]_vars
    /\ WF_vars(Completes)
    /\ WF_vars(\E d \in Devices : HeartbeatTick(d))
    /\ WF_vars(AdvanceInterval)

(***************************************************************************)
(* Channels at fault: the notification tasks run and a channel attempt may *)
(* fail or stay pending.                                                   *)
(***************************************************************************)
\* the configs an organization has set: one enabled config, of either room policy
DeliverConfigLists ==
    {cfgs \in OrgConfigLists : cfgs[1].enabled /\ cfgs[1].priority \in {"MEDIUM", "HIGH"}}

InitDeliver ==
    /\ Constructed
    /\ notificationConfigs \in
           {EmptyMap} \cup {[o \in {"org1"} |-> cfgs] : cfgs \in DeliverConfigLists}
    /\ signalsLeft = DeliverSignals
    /\ advancesLeft = 0
    /\ faultsLeft = DeliverFaults

NextDeliver ==
    \/ \E d \in KnownDevices, s \in SweepInputs : SetStatus(d, s[1], s[2], s[3])
    \/ \E c \in calls : Apply(c)
    \/ \E c \in calls : LogConnectionStatus(c)
    \/ \E c \in calls : UpdateDeviceStatus(c)
    \/ \E c \in calls : EmitStatusChange(c)
    \/ \E t \in tasks : ResolveNotification(t)
    \/ \E t \in tasks : ResolveNotificationFails(t)
    \/ \E t \in tasks : ResolveNotificationHangs(t)
    \/ \E t \in tasks : DeliverNext(t)
    \/ \E t \in tasks : DeliverNextFails(t)
    \/ \E t \in tasks : DeliverNextHangs(t)
    \/ \E t \in tasks : LogNotification(t)

SpecDeliver == InitDeliver /\ [][NextDeliver]_vars

(***************************************************************************)
(* The dispatcher next to the timers: the notification tasks run at their  *)
(* own pace while days pass and the heartbeat and cleanup intervals fire.  *)
(***************************************************************************)
InitBusy ==
    /\ Constructed
    /\ notificationConfigs = EmptyMap
    /\ signalsLeft = BusySignals
    /\ advancesLeft = BusyDays
    /\ faultsLeft = 0

\* the signals of this specification: a device connects
BusyInputs == {s \in Signals : s[1] = "ONLINE" /\ s[2] = "MQTT"}

\* a signal arrives once the notification tasks of the earlier signals have ended; those
\* of the transitions the heartbeat callback makes run beside everything
Arrives(d, s) == tasks = {} /\ SetStatus(d, s[1], s[2], s[3])

NextBusy ==
    \/ \E d \in KnownDevices, s \in BusyInputs : Arrives(d, s)
    \/ \E c \in calls : Apply(c)
    \/ \E c \in calls : LogConnectionStatus(c)
    \/ \E c \in calls : UpdateDeviceStatus(c)
    \/ \E c \in calls : EmitStatusChange(c)
    \/ \E d \in Devices : HeartbeatTick(d)
    \/ CleanupScan
    \/ CleanupLog
    \/ CleanupEvict
    \/ AdvanceDay
    \/ \E t \in tasks : ResolveNotification(t)
    \/ \E t \in tasks : DeliverNext(t)
    \/ \E t \in tasks : LogNotification(t)

SpecBusy == InitBusy /\ [][NextBusy]_vars

(***************************************************************************)
(* The MQTT adapter at work: devices publish their status, their data and  *)
(* their last will; other adapters send their signals.                     *)
(***************************************************************************)
InitMqtt ==
    /\ Constructed
    /\ notificationConfigs = EmptyMap
    /\ signalsLeft = MqttSignals
    /\ advancesLeft = 0
    /\ faultsLeft = 0

\* the topics devices publish to and the payloads they send
MqttTopics == {Topic(d, leaf) : d \in Devices, leaf \in {"status", "lwt", "data"}}

MqttPayloads == {"online", "offline", "gone"}

NextMqtt ==
    \/ \E topic \in MqttTopics, payload \in MqttPayloads : MqttMessage(topic, payload)
    \/ \E d \in KnownDevices, s \in SweepInputs : SetStatus(d, s[1], s[2], s[3])
    \/ \E c \in calls : Apply(c)
    \/ \E c \in calls : LogConnectionStatus(c)
    \/ \E c \in calls : UpdateDeviceStatus(c)
    \/ \E c \in calls : EmitStatusChange(c)

SpecMqtt == InitMqtt /\ [][NextMqtt]_vars

(***************************************************************************)
(* Two devices: the store holds one device or both, and signals arrive for *)
(* both.                                                                   *)
(***************************************************************************)
InitPair ==
    /\ known \in {KnownDevices, Devices}
    /\ deviceConnections = EmptyMap
    /\ heartbeatIntervals = EmptyMap
    /\ calls = {}
    /\ callSeq = 0
    /\ sessionSeq = 0
    /\ now = 0
    /\ bus = << >>
    /\ connLog = {}
    /\ durable = [d \in Devices |-> "OFFLINE"]
    /\ rejected = {}
    /\ sessionStart = [d \in Devices |-> Undefined]
    /\ ticksApplied = [d \in Devices |-> {}]
    /\ tasks = {}
    /\ deliveries = {}
    /\ audit = {}
    /\ cleanup = Idle
    /\ cleanupAt = CLEANUP_INTERVAL
    /\ faults = {}
    /\ escaped = {}
    /\ notificationConfigs = EmptyMap
    /\ signalsLeft = PairSignals
    /\ advancesLeft = PairAdvances
    /\ faultsLeft = 0

\* the signals of this specification: a device connects and disconnects
PairInputs == {s \in Signals : s[1] \in {"ONLINE", "OFFLINE"} /\ s[2] = "MQTT"}

NextPair ==
    \/ \E d \in Devices, s \in PairInputs : SetStatus(d, s[1], s[2], s[3])
    \/ \E d \in Devices : UpdateDeviceActivity(d, {"lastMessage"})
    \/ \E c \in calls : Reject(c)
    \/ \E c \in calls : Apply(c)
    \/ \E c \in calls : LogConnectionStatus(c)
    \/ \E c \in calls : UpdateDeviceStatus(c)
    \/ \E c \in calls : EmitStatusChange(c)
    \/ \E d \in Devices : HeartbeatTick(d)
    \/ Advance

SpecPair == InitPair /\ [][NextPair]_vars

(***************************************************************************)
(* The WebSocket adapter at work: clients connect and disconnect while the *)
(* clock moves and the heartbeat callbacks run.                            *)
(***************************************************************************)
InitSocket ==
    /\ Constructed
    /\ notificationConfigs = EmptyMap
    /\ signalsLeft = SocketSignals
    /\ advancesLeft = SocketAdvances
    /\ faultsLeft = 0

NextSocket ==
    \/ \E d \in KnownDevices, h \in ClientHandles : Connect(d, h)
    \/ \E h \in ClientHandles : Disconnect(h)
    \/ \E c \in calls : Apply(c)
    \/ \E c \in calls : LogConnectionStatus(c)
    \/ \E c \in calls : UpdateDeviceStatus(c)
    \/ \E c \in calls : EmitStatusChange(c)
    \/ \E d \in Devices : HeartbeatTick(d)
    \/ Advance

SpecSocket == InitSocket /\ [][NextSocket]_vars

(***************************************************************************)
(* The counts: signals of every status and of two transports arrive for    *)
(* two devices the store holds; the clock stands.                          *)
(***************************************************************************)
InitCount ==
    /\ known = Devices
    /\ deviceConnections = EmptyMap
    /\ heartbeatIntervals = EmptyMap
    /\ calls = {}
    /\ callSeq = 0
    /\ sessionSeq = 0
    /\ now = 0
    /\ bus = << >>
    /\ connLog = {}
    /\ durable = [d \in Devices |-> "OFFLINE"]
    /\ rejected = {}
    /\ sessionStart = [d \in Devices |-> Undefined]
    /\ ticksApplied = [d \in Devices |-> {}]
    /\ tasks = {}
    /\ deliveries = {}
    /\ audit = {}
    /\ cleanup = Idle
    /\ cleanupAt = CLEANUP_INTERVAL
    /\ faults = {}
    /\ escaped = {}
    /\ notificationConfigs = EmptyMap
    /\ signalsLeft = CountSignals
    /\ advancesLeft = 0
    /\ faultsLeft = 0

NextCount ==
    \/ \E d \in Devices, s \in Signals : SetStatus(d, s[1], s[2], s[3])
    \/ \E c \in calls : Apply(c)
    \/ \E c \in calls : LogConnectionStatus(c)
    \/ \E c \in calls : UpdateDeviceStatus(c)
    \/ \E c \in calls : EmitStatusChange(c)

SpecCount == InitCount /\ [][NextCount]_vars

(***************************************************************************)
(* Properties.                                                             *)
(***************************************************************************)
\* the step applies call c: lines 125-171 ran for it
AppliedNow(c) == c.pc = "lookup" /\ \E n \in calls' : n.id = c.id /\ n.pc = "log"

\* the step runs emitStatusChange of call c and the call returns
EmittedNow(c) == c.pc = "emit" /\ \A n \in calls' : n.id # c.id

\* what the step appended to the bus
NewOnBus == SubSeq(bus', Len(bus) + 1, Len(bus'))

HasRecord(d) == d \in DOMAIN deviceConnections

\* C1: a setStatus call publishes status_change, its status-specific event and the
\* device-room broadcast exactly when its status differs from the status of the record
\* it replaced (no record counts as differing), and publishes nothing otherwise.
C1_PublishedIffStatusDiffers ==
    [][\A c \in calls :
        /\ AppliedNow(c) =>
              \E n \in calls' :
                  /\ n.id = c.id
                  /\ n.old = IF HasRecord(c.dev) THEN deviceConnections[c.dev].status
                             ELSE "none"
        /\ EmittedNow(c) =>
              IF c.old # c.status
              THEN /\ Len(NewOnBus) = 3
                   /\ NewOnBus[1].ev = "status_change"
                   /\ NewOnBus[2].ev =
                          [ONLINE |-> "device_online", OFFLINE |-> "device_offline",
                           INACTIVE |-> "device_inactive", ERROR |-> "device_error"][c.status]
                   /\ NewOnBus[3].ev = "room:device:status_change"
                   /\ \A i \in 1..3 : /\ NewOnBus[i].dev = c.dev
                                      /\ NewOnBus[i].status = c.status
              ELSE bus' = bus]_vars

\* C1 witness: one call has published its change and another, which left the status as
\* it was, has returned without publishing.
C1_Witness ==
    /\ bus # << >>
    /\ \E r \in connLog :
          /\ \A c \in calls : c.id # r.call
          /\ \A i \in DOMAIN bus : bus[i].call # r.call

\* C2: a late disconnect of a device that went ONLINE at t0 and was then declared INACTIVE
\* by the heartbeat monitor yields an OFFLINE record whose connectionDuration is the whole
\* seconds from t0 to the disconnect.
C2_LateDisconnectHasDuration ==
    [][\A c \in calls :
        (/\ AppliedNow(c)
         /\ c.status = "OFFLINE"
         /\ HasRecord(c.dev)
         /\ deviceConnections[c.dev].status = "INACTIVE"
         /\ "inactiveReason" \in deviceConnections[c.dev].metadata
         /\ sessionStart[c.dev] # Undefined
         /\ \A x \in ticksApplied[c.dev] : x.id < c.id)
        => /\ deviceConnections'[c.dev].status = "OFFLINE"
           /\ deviceConnections'[c.dev].connectionDuration =
                  (now - sessionStart[c.dev]) \div MsPerSecond]_vars

\* C5: between two explicit signals the heartbeat monitor publishes at most one
\* status_change and one device_inactive event for a device, and exactly one of each once
\* a heartbeat call that found the device ONLINE has returned, however many ticks follow.
C5_InactiveOnce ==
    \A d \in Devices :
        LET ids == {x.id : x \in ticksApplied[d]}
            inactive == {i \in DOMAIN bus : bus[i].ev = "device_inactive" /\ bus[i].call \in ids}
            changes == {i \in DOMAIN bus : bus[i].ev = "status_change" /\ bus[i].call \in ids}
        IN  /\ Cardinality(inactive) <= 1
            /\ Cardinality(changes) <= 1
            /\ ((/\ \E x \in ticksApplied[d] : x.old = "ONLINE"
                 /\ \A c \in calls : c.id \notin ids)
                => Cardinality(inactive) = 1 /\ Cardinality(changes) = 1)

\* C5 witness: two heartbeat calls in a row were applied to a device that was ONLINE and
\* both have returned.
C5_Witness ==
    \E d \in Devices :
        /\ Cardinality(ticksApplied[d]) >= 2
        /\ \E x \in ticksApplied[d] : x.old = "ONLINE"
        /\ \A c \in calls : c.dev # d

\* C6: setStatus(d, ONLINE, p) on a record that is already ONLINE keeps sessionId and
\* connectedAt, generates no session id, advances lastActivityAt to now and, when the signal
\* carries the protocol and details the record has, changes nothing else; the call
\* publishes nothing.
C6_RepeatedOnlineKeepsSession ==
    [][\A c \in calls :
        /\ (/\ AppliedNow(c)
            /\ c.status = "ONLINE"
            /\ HasRecord(c.dev)
            /\ deviceConnections[c.dev].status = "ONLINE")
           => LET old == deviceConnections[c.dev]
                  new == deviceConnections'[c.dev]
              IN  /\ new.sessionId = old.sessionId
                  /\ new.connectedAt = old.connectedAt
                  /\ new.status = "ONLINE"
                  /\ new.lastActivityAt = now
                  /\ new.lastActivityAt >= old.lastActivityAt
                  /\ sessionSeq' = sessionSeq
                  /\ (/\ c.protocol = old.protocol
                      /\ c.info.clientId = old.clientId
                      /\ c.info.metadata = old.metadata)
                     => new = [old EXCEPT !.lastActivityAt = now]
        /\ (EmittedNow(c) /\ c.old = "ONLINE" /\ c.status = "ONLINE") => bus' = bus]_vars

\* C6 witness: two ONLINE signals for a device have returned, one session id was
\* generated, and lastActivityAt has moved past connectedAt.
C6_Witness ==
    \E d \in Devices :
        /\ HasRecord(d)
        /\ deviceConnections[d].status = "ONLINE"
        /\ deviceConnections[d].lastActivityAt > deviceConnections[d].connectedAt
        /\ sessionSeq = 1
        /\ Cardinality({r \in connLog : r.dev = d /\ r.status = "ONLINE"}) = 2
        /\ calls = {}

\* C7: setStatus OFFLINE applied at t1 to a record that went ONLINE at t0 stamps
\* disconnectedAt = t1 and connectionDuration = floor((t1 - t0) / 1 second), t0 being the
\* connectedAt of the ONLINE record it replaces.
C7_DurationOfConnectDisconnect ==
    [][\A c \in calls :
        (/\ AppliedNow(c)
         /\ c.status = "OFFLINE"
         /\ HasRecord(c.dev)
         /\ deviceConnections[c.dev].status = "ONLINE")
        => LET t0 == deviceConnections[c.dev].connectedAt
               new == deviceConnections'[c.dev]
           IN  /\ t0 = sessionStart[c.dev]
               /\ new.status = "OFFLINE"
               /\ new.disconnectedAt = now
               /\ new.connectionDuration >= 0
               /\ new.connectionDuration * MsPerSecond <= now - t0
               /\ now - t0 < (new.connectionDuration + 1) * MsPerSecond]_vars

\* C7 witness: a device is OFFLINE with the duration of a session that lasted a number of
\* milliseconds that is no whole number of seconds.
C7_Witness ==
    \E d \in Devices :
        /\ HasRecord(d)
        /\ deviceConnections[d].status = "OFFLINE"
        /\ deviceConnections[d].connectionDuration > 0
        /\ deviceConnections[d].connectionDuration * MsPerSecond
               < deviceConnections[d].disconnectedAt
        /\ \E r \in connLog :
              /\ r.dev = d
              /\ r.status = "ONLINE"
              /\ r.connectedAt = 0

\* C8: setStatus ONLINE on a device with no record or a record that is not ONLINE stamps
\* connectedAt = now, stores a session id no record and no log row has held before, clears
\* disconnectedAt and arms the device's heartbeat timer anew.
C8_EnteringOnlineStartsSession ==
    [][\A c \in calls :
        (/\ AppliedNow(c)
         /\ c.status = "ONLINE"
         /\ (~HasRecord(c.dev) \/ deviceConnections[c.dev].status # "ONLINE"))
        => LET new == deviceConnections'[c.dev]
           IN  /\ new.status = "ONLINE"
               /\ new.connectedAt = now
               /\ new.disconnectedAt = Undefined
               /\ new.sessionId # Undefined
               /\ \A d \in DOMAIN deviceConnections :
                      deviceConnections[d].sessionId # new.sessionId
               /\ \A r \in connLog : r.sessionId # new.sessionId
               /\ \A x \in calls : x.data.sessionId # new.sessionId
               /\ c.dev \in DOMAIN heartbeatIntervals'
               /\ heartbeatIntervals'[c.dev] = now + HEARTBEAT_INTERVAL]_vars

\* C8 witness: a device is ONLINE in its second session, with the timer armed.
C8_Witness ==
    \E d \in Devices :
        /\ HasRecord(d)
        /\ deviceConnections[d].status = "ONLINE"
        /\ deviceConnections[d].sessionId = 2
        /\ deviceConnections[d].connectedAt > 0
        /\ d \in DOMAIN heartbeatIntervals

\* C9: a setStatus call for a device the durable store does not hold fails with
\* DeviceNotFound and records nothing: records, timers, connection log, durable status
\* and published events stay as they were.
C9_UnknownDeviceRecordsNothing ==
    [][\A c \in calls :
        (c.pc = "lookup" /\ c.dev \notin known /\ c \notin calls')
        => /\ c.id \in rejected'
           /\ \A n \in calls' : n.id # c.id
           /\ UNCHANGED <<deviceConnections, heartbeatIntervals, connLog, durable, bus>>]_vars

\* C9 witness: a call for the unknown device has been rejected.
C9_Witness == rejected # {} /\ "d2" \notin known

\* C10: updateActivity for a device without a record creates no record, starts no timer,
\* publishes nothing and fails no call.
C10_ActivityWithoutRecordIsNoOp ==
    [][\A d \in Devices, m \in ActivityPatches :
        (~HasRecord(d) /\ UpdateDeviceActivity(d, m))
        => UNCHANGED <<deviceConnections, heartbeatIntervals, calls, bus, connLog, durable,
                       rejected>>]_vars

\* C10 witness: an activity signal has arrived for a device that had no record, and no
\* device has a record.
C10_Witness ==
    /\ signalsLeft < MaxSignals
    /\ callSeq = 0
    /\ deviceConnections = EmptyMap

\* C11: updateActivity for a device with a record sets lastActivityAt to now, which is no
\* earlier than before, adds the patch to the metadata and keeps every other field:
\* status, protocol, connectedAt, disconnectedAt and sessionId stay; it starts no call,
\* touches no timer and publishes nothing.
C11_ActivityKeepsStatus ==
    [][\A d \in Devices, m \in ActivityPatches :
        (HasRecord(d) /\ UpdateDeviceActivity(d, m))
        => LET old == deviceConnections[d]
               new == deviceConnections'[d]
           IN  /\ new.lastActivityAt = now
               /\ new.lastActivityAt >= old.lastActivityAt
               /\ new.metadata = old.metadata \cup m
               /\ new.status = old.status
               /\ new.protocol = old.protocol
               /\ new.connectedAt = old.connectedAt
               /\ new.disconnectedAt = old.disconnectedAt
               /\ new.sessionId = old.sessionId
               /\ new = [old EXCEPT !.lastActivityAt = now, !.metadata = old.metadata \cup m]
               /\ UNCHANGED <<heartbeatIntervals, calls, bus, connLog, durable, rejected>>]_vars

\* C11 witness: activity has reached a device that is not ONLINE, and the device has kept
\* its status.
C11_Witness ==
    \E d \in Devices :
        /\ HasRecord(d)
        /\ deviceConnections[d].status \in {"INACTIVE", "OFFLINE", "ERROR"}
        /\ "lastMessage" \in deviceConnections[d].metadata
        /\ deviceConnections[d].lastActivityAt > 0
        /\ calls = {}

(***************************************************************************)
(* Properties of concurrent calls.                                         *)
(***************************************************************************)
\* C17: the calls for one device are applied to its record in the order they were
\* invoked: when a call is applied, no call for the device invoked after it has been
\* applied already.
C17_AppliedInArrivalOrder ==
    [][\A c \in calls :
        AppliedNow(c)
        => /\ \A x \in calls : (x.dev = c.dev /\ x.id > c.id) => x.pc = "lookup"
           /\ \A r \in connLog : (r.dev = c.dev /\ r.call > 0) => r.call < c.id]_vars

\* a record holds the fields of one status: a session exactly when it is ONLINE, a
\* disconnection time exactly when it is OFFLINE, a duration only when it is OFFLINE
OfOneStatus(conn) ==
    /\ (conn.sessionId # Undefined) <=> (conn.status = "ONLINE")
    /\ (conn.connectedAt # Undefined) <=> (conn.status = "ONLINE")
    /\ (conn.disconnectedAt # Undefined) <=> (conn.status = "OFFLINE")
    /\ (conn.connectionDuration # Undefined) => (conn.status = "OFFLINE")

\* C18: when a call is applied while another call for the same device is in flight, the
\* record it writes is made of its own signal and of the record it found in the very
\* state it writes in: status, protocol, client and metadata are the signal's, session
\* and duration derive from the record found, which is itself the complete record of one
\* earlier call; the status the call will compare against is that record's too.
C18_RacingCallsDoNotMix ==
    [][\A c \in calls :
        (AppliedNow(c) /\ \E x \in calls : x.id # c.id /\ x.dev = c.dev)
        => LET new == deviceConnections'[c.dev]
               found == HasRecord(c.dev)
               old == deviceConnections[c.dev]
           IN  /\ new.status = c.status
               /\ new.protocol = c.protocol
               /\ new.clientId = c.info.clientId
               /\ new.metadata = c.info.metadata
               /\ new.lastActivityAt = IF c.info.lastActivityAt # Undefined
                                       THEN c.info.lastActivityAt ELSE now
               /\ OfOneStatus(new)
               /\ found => OfOneStatus(old)
               /\ (c.status = "ONLINE" /\ found /\ old.status = "ONLINE")
                  => (new.sessionId = old.sessionId /\ new.connectedAt = old.connectedAt)
               /\ (c.status = "ONLINE" /\ ~(found /\ old.status = "ONLINE"))
                  => (new.sessionId = sessionSeq' /\ sessionSeq' = sessionSeq + 1
                      /\ new.connectedAt = now)
               /\ c.status = "OFFLINE"
                  => new.connectionDuration =
                         IF found /\ old.status = "ONLINE"
                         THEN (now - old.connectedAt) \div MsPerSecond ELSE Undefined
               /\ \E n \in calls' :
                      /\ n.id = c.id
                      /\ n.old = IF found THEN old.status ELSE "none"]_vars

\* C18 witness: two calls for one device, carrying different transports, have both been
\* applied while both were in flight.
C18_Witness ==
    \E c1, c2 \in calls :
        /\ c1.id # c2.id
        /\ c1.dev = c2.dev
        /\ c1.protocol # c2.protocol
        /\ c1.pc # "lookup"
        /\ c2.pc # "lookup"

(***************************************************************************)
(* Properties of failing store operations.                                 *)
(***************************************************************************)
\* the step is a failed store write of call c
WriteFailsNow(c) == c.id \in faults' /\ c.id \notin faults

\* C19: a failing connection-log write or device-row update raises no error and leaves
\* the table as it is, so that the record holds the status of the call when no other
\* call has been invoked; the call goes on to its next step, and when it publishes it
\* does so by the usual rule: the three publications when its status differs from the
\* status it replaced, none otherwise.
C19_FailedWriteKeepsCallGoing ==
    [][\A c \in calls :
        /\ WriteFailsNow(c)
           => /\ rejected' = rejected
              /\ escaped' = escaped
              /\ UNCHANGED <<deviceConnections, heartbeatIntervals, bus, connLog, durable>>
              /\ HasRecord(c.dev)
              /\ callSeq = 1 => deviceConnections[c.dev].status = c.status
              /\ \E n \in calls' :
                     /\ n.id = c.id
                     /\ n.pc = IF c.pc = "log" THEN "update" ELSE "emit"
        /\ (EmittedNow(c) /\ c.id \in faults)
           => /\ c.id \notin rejected'
              /\ IF c.old # c.status
                 THEN /\ Len(NewOnBus) = 3
                      /\ \A i \in 1..3 : NewOnBus[i].call = c.id /\ NewOnBus[i].status = c.status
                      /\ NewOnBus[1].ev = "status_change"
                 ELSE bus' = bus]_vars

\* C19 witness: a call one of whose writes failed has returned without an error, its
\* status is in the record and its change is on the bus.
C19_Witness ==
    \E id \in faults :
        /\ id \notin rejected
        /\ \A c \in calls : c.id # id
        /\ \E i \in DOMAIN bus :
               /\ bus[i].call = id
               /\ HasRecord(bus[i].dev)
               /\ deviceConnections[bus[i].dev].status = bus[i].status

\* C20: no rejection of setDeviceStatus goes uncaught.
C20_NoUnhandledRejection == escaped = {}

(***************************************************************************)
(* Properties of the sweeper and the timers.                               *)
(***************************************************************************)
\* the step ends an iteration of the cleanup loop by deleting the record of device d
EvictsNow(d) == cleanup.pc = "evict" /\ cleanup.dev = d /\ cleanup' # cleanup

\* the rows the sweeper wrote for device d
CleanupRows(d) == {r \in connLog : r.call = 0 /\ r.dev = d}

\* C12: a cleanup collects every record that is INACTIVE or ERROR and more than 24 hours
\* without activity, drops none of the collected devices that still has a record, and
\* deletes the record of a collected device only after the OFFLINE row with
\* metadata.cleanupReason is in the connection log; after the deletion the device is
\* absent from the table.
C12_StaleRecordLoggedThenRemoved ==
    [][/\ (cleanup.pc = "idle" /\ cleanup' # cleanup)
          => \A d \in DOMAIN deviceConnections :
                 (/\ deviceConnections[d].status \in {"INACTIVE", "ERROR"}
                  /\ now - deviceConnections[d].lastActivityAt > EVICTION_THRESHOLD)
                 => (cleanup'.pc = "log" /\ (d = cleanup'.dev \/ d \in cleanup'.todo))
       /\ \A d \in Devices :
              EvictsNow(d)
              => /\ \E r \in CleanupRows(d) :
                        /\ r.status = "OFFLINE"
                        /\ "cleanupReason" \in r.metadata
                        /\ r.disconnectedAt = cleanup.at
                 /\ d \notin DOMAIN deviceConnections'
                 /\ \A e \in cleanup.todo :
                        e \in DOMAIN deviceConnections'
                        => (cleanup'.pc = "log" /\ (e = cleanup'.dev \/ e \in cleanup'.todo))]_vars

\* C12 witness: a cleanup has written its row for a device whose record it had found
\* INACTIVE, has deleted the record and has finished.
C12_Witness ==
    /\ cleanup.pc = "idle"
    /\ "d1" \notin DOMAIN deviceConnections
    /\ CleanupRows("d1") # {}
    /\ \E r \in connLog : r.call > 0 /\ r.dev = "d1" /\ r.status = "INACTIVE"

\* C13: a record leaves the table only in the sweeper's deletion, and the record deleted
\* is INACTIVE or ERROR and more than 24 hours without activity at that moment.
C13_OnlyStaleRecordsRemoved ==
    [][\A d \in DOMAIN deviceConnections :
        d \notin DOMAIN deviceConnections'
        => /\ EvictsNow(d)
           /\ deviceConnections[d].status \in {"INACTIVE", "ERROR"}
           /\ now - deviceConnections[d].lastActivityAt > EVICTION_THRESHOLD]_vars

\* C14: by the time the sweeper deletes the record of a device it has published
\* status_change and device_offline for the device's forced OFFLINE transition and the
\* device row's status is OFFLINE.
C14_SweeperPublishesOffline ==
    [][\A d \in Devices :
        EvictsNow(d)
        => /\ durable'[d] = "OFFLINE"
           /\ \E i \in DOMAIN bus' :
                  /\ bus'[i].ev = "status_change"
                  /\ bus'[i].dev = d
                  /\ bus'[i].status = "OFFLINE"
                  /\ bus'[i].call = 0
           /\ \E i \in DOMAIN bus' :
                  /\ bus'[i].ev = "device_offline"
                  /\ bus'[i].dev = d
                  /\ bus'[i].call = 0]_vars

\* every ONLINE device has its timer armed; no OFFLINE device and no device without a
\* record has one
TimersMatchRecords ==
    \A d \in Devices :
        /\ (HasRecord(d) /\ deviceConnections[d].status = "ONLINE")
           => d \in DOMAIN heartbeatIntervals
        /\ (~HasRecord(d) \/ deviceConnections[d].status = "OFFLINE")
           => d \notin DOMAIN heartbeatIntervals

\* C15: in every state an ONLINE device has its heartbeat timer armed (the timers are
\* keyed by device, so it has one) and an OFFLINE device or a device without a record,
\* never seen or evicted, has none; a transition to INACTIVE or ERROR leaves the timers
\* as they are.
C15_TimerIffOnline ==
    /\ TimersMatchRecords
    /\ [][/\ TimersMatchRecords'
          /\ \A c \in calls :
                 (AppliedNow(c) /\ c.status \in {"INACTIVE", "ERROR"})
                 => heartbeatIntervals' = heartbeatIntervals]_vars

\* C15 witness: a device that had gone ONLINE, arming its timer, has been evicted by the
\* sweeper and has neither a record nor a timer.
C15_Witness ==
    /\ "d1" \notin DOMAIN deviceConnections
    /\ "d1" \notin DOMAIN heartbeatIntervals
    /\ CleanupRows("d1") # {}
    /\ \E r \in connLog : r.call > 0 /\ r.dev = "d1" /\ r.status = "ONLINE"

\* device d is ONLINE, no signal will arrive any more, none is being processed, and the
\* clock still has the intervals to go that take the device past the threshold
LeftAlone(d) ==
    /\ HasRecord(d)
    /\ deviceConnections[d].status = "ONLINE"
    /\ signalsLeft = 0
    /\ \A c \in calls : c.origin = "heartbeat"
    /\ now + advancesLeft * HEARTBEAT_INTERVAL - deviceConnections[d].lastActivityAt
           > INACTIVE_THRESHOLD

DeclaredInactive(d) ==
    /\ HasRecord(d)
    /\ deviceConnections[d].status = "INACTIVE"
    /\ "inactiveReason" \in deviceConnections[d].metadata

\* C16: an ONLINE device of the durable store that gets no further signal is eventually
\* INACTIVE with metadata.inactiveReason, and no record is ONLINE with its last activity
\* more than the threshold plus one heartbeat interval ago: the first tick that finds the
\* device over the threshold declares it INACTIVE.
C16_SilentDeviceBecomesInactive ==
    /\ [](\A d \in Devices :
             (HasRecord(d) /\ deviceConnections[d].status = "ONLINE")
             => now - deviceConnections[d].lastActivityAt
                    <= INACTIVE_THRESHOLD + HEARTBEAT_INTERVAL)
    /\ \A d \in KnownDevices : LeftAlone(d) ~> DeclaredInactive(d)

\* C16 witness: a device has been declared INACTIVE by the tick one interval past the
\* threshold of its last activity.
C16_Witness ==
    \E d \in KnownDevices :
        /\ DeclaredInactive(d)
        /\ now - deviceConnections[d].lastActivityAt = INACTIVE_THRESHOLD + HEARTBEAT_INTERVAL
        /\ ticksApplied[d] # {}
        /\ calls = {}

(***************************************************************************)
(* Properties of the dispatcher.                                           *)
(***************************************************************************)
\* the transitions the Registry has published and whose notification tasks have all ended
Dispatched == {bus[i].call : i \in DOMAIN bus} \ {t.call : t \in tasks}

StatusOfTransition(id) ==
    LET i == CHOOSE j \in DOMAIN bus : bus[j].call = id IN bus[i].status

DeviceOfTransition(id) ==
    LET i == CHOOSE j \in DOMAIN bus : bus[j].call = id IN bus[i].dev

Range(q) == {q[i] : i \in DOMAIN q}

\* C3: when the device's organization has exactly one enabled config for the transition's
\* event type, the transition gets one delivery attempt on every channel the config lists
\* and none on any other channel.
C3_OneAttemptPerConfiguredChannel ==
    \A id \in Dispatched :
        LET org == OrganizationOf(DeviceOfTransition(id))
            type == NotificationType(StatusOfTransition(id))
        IN  org \in DOMAIN notificationConfigs =>
                LET cfgs == notificationConfigs[org]
                    hits == {i \in DOMAIN cfgs : cfgs[i].type = type /\ cfgs[i].enabled}
                IN  Cardinality(hits) = 1 =>
                        \A ch \in NotificationChannel :
                            Cardinality({r \in deliveries : r.call = id /\ r.channel = ch})
                                = IF \E i \in hits : ch \in Range(cfgs[i].channels)
                                  THEN 1 ELSE 0

\* C4: every dispatched message of priority HIGH or CRITICAL has been delivered to the
\* system-wide 'notifications' room, whatever channels its config lists.
C4_HighPriorityReachesSystemRoom ==
    \A a \in audit :
        a.level \in {"error", "critical"} =>
            \E r \in deliveries :
                /\ r.call = a.call
                /\ r.ev = a.ev
                /\ "notifications" \in r.rooms

(***************************************************************************)
(* Properties of the dispatcher beside the Registry.                       *)
(***************************************************************************)
\* C21: when setDeviceStatus returns, no delivery attempt and no audit record of its
\* transition has been made: the notification tasks of a published transition have only
\* been started.  While notification tasks are pending, however long, every call in
\* flight can take its next step, every heartbeat callback that is due can run and the
\* sweeper can take its next step.
C21_StatusReturnsBeforeDelivery ==
    [][ /\ \A c \in calls :
              EmittedNow(c) =>
                  /\ \A r \in deliveries' : r.call # c.id
                  /\ \A a \in audit' : a.call # c.id
                  /\ \A t \in tasks' : t.call = c.id => t.pc = "lookup"
                  /\ Len(bus') > Len(bus) => \E t \in tasks' : t.call = c.id
        /\ tasks # {} =>
              /\ \A c \in calls :
                     ENABLED (\/ Apply(c)
                              \/ LogConnectionStatus(c)
                              \/ UpdateDeviceStatus(c)
                              \/ EmitStatusChange(c))
              /\ \A d \in DOMAIN heartbeatIntervals :
                     heartbeatIntervals[d] <= now => ENABLED HeartbeatTick(d)
              /\ (cleanup.pc = "idle" /\ cleanupAt <= now) => ENABLED CleanupScan
              /\ cleanup.pc = "log" => ENABLED CleanupLog
              /\ cleanup.pc = "evict" => ENABLED CleanupEvict
      ]_vars

\* the notification tasks of the ONLINE transition are still where they started, no
\* delivery attempt has been made, and meanwhile a day has passed, the heartbeat callback
\* has made the device INACTIVE and the sweeper is about to evict its record
C21_Witness ==
    /\ \E t \in tasks : t.status = "ONLINE" /\ t.pc = "lookup"
    /\ deliveries = {}
    /\ \E i \in DOMAIN bus : bus[i].status = "INACTIVE"
    /\ cleanup.pc = "evict"
    /\ calls = {}

(***************************************************************************)
(* Properties of failing and hanging channels.                             *)
(***************************************************************************)
\* the notification tasks still running for the message of a delivery row
TasksOf(r) == {t \in tasks : t.call = r.call /\ t.ev = r.ev}

\* the channels of the config the dispatcher resolves for a published transition
ChannelsOfTransition(id) ==
    LET cfgs == GetNotificationConfigs(notificationConfigs,
                                       OrganizationOf(DeviceOfTransition(id)))
        i == MatchingConfig(cfgs, NotificationType(StatusOfTransition(id)))
    IN  IF i = 0 THEN {} ELSE Range(cfgs[i].channels)

Attempted(r, ch) ==
    \E q \in deliveries : q.call = r.call /\ q.ev = r.ev /\ q.channel = ch

\* C22: when the delivery attempt on a channel has failed, every channel of the config
\* has had its attempt or is still ahead of the running task; once the task has ended
\* every channel of the config has had its attempt and the dispatch is in the audit log;
\* and the call that published the transition has returned without an error.
C22_FailedChannelDoesNotStopDispatch ==
    \A r \in deliveries :
        r.outcome = "failed" =>
            /\ \A t \in TasksOf(r) :
                   /\ t.pc \in {"send", "log", "hung"}
                   /\ \A ch \in ChannelsOfTransition(r.call) :
                          Attempted(r, ch) \/ ch \in Range(t.channels)
            /\ TasksOf(r) = {} =>
                   /\ \A ch \in ChannelsOfTransition(r.call) : Attempted(r, ch)
                   /\ \E a \in audit : a.call = r.call /\ a.ev = r.ev
            /\ r.call \notin rejected
            /\ \A c \in calls : c.id # r.call
            /\ escaped = {}

\* the attempt on one channel of a message failed, the attempt on another channel of the
\* same message was made after it, and the dispatch is in the audit log
C22_Witness ==
    \E r \in deliveries, q \in deliveries :
        /\ r.outcome = "failed"
        /\ r.channel = "EMAIL"
        /\ q.call = r.call /\ q.ev = r.ev
        /\ q.channel = "SMS"
        /\ q.outcome = "sent"
        /\ TasksOf(r) = {}
        /\ \E a \in audit : a.call = r.call /\ a.ev = r.ev

OwnConfigs(org) ==
    IF org \in DOMAIN notificationConfigs THEN notificationConfigs[org] ELSE << >>

\* C24: a transition whose event type has no config among those of the device's
\* organization is dispatched with the system default config of that event type: it gets
\* a delivery attempt on every channel the default config lists.
C24_DefaultConfigPerEventType ==
    \A id \in Dispatched :
        LET own == OwnConfigs(OrganizationOf(DeviceOfTransition(id)))
            type == NotificationType(StatusOfTransition(id))
            i == MatchingConfig(DefaultConfigs, type)
        IN  (\A j \in DOMAIN own : own[j].type # type) =>
                /\ i # 0
                /\ \A ch \in Range(DefaultConfigs[i].channels) :
                       \E r \in deliveries : r.call = id /\ r.channel = ch

\* the configs that apply to an event type: those the organization has set for it,
\* the system defaults for it when the organization has set none
Applicable(org, type) ==
    LET own == OwnConfigs(org)
        mine == {own[j] : j \in {k \in DOMAIN own : own[k].type = type}}
    IN  IF mine # {} THEN mine
        ELSE {DefaultConfigs[j] : j \in {k \in DOMAIN DefaultConfigs :
                                             DefaultConfigs[k].type = type}}

\* C25: a published transition none of whose applicable configs is enabled gets no
\* delivery attempt on any channel or room and no audit record, and the call that
\* published it has returned without an error.
C25_NoMatchSendsNothing ==
    \A i \in DOMAIN bus :
        LET id == bus[i].call
            cfgs == Applicable(OrganizationOf(bus[i].dev), NotificationType(bus[i].status))
        IN  (\A cfg \in cfgs : ~ cfg.enabled) =>
                /\ \A r \in deliveries : r.call # id
                /\ \A a \in audit : a.call # id
                /\ id \notin rejected
                /\ escaped = {}

\* the organization's config for DEVICE_OFFLINE is disabled, an OFFLINE transition was
\* published and its notification tasks have ended
C25_Witness ==
    /\ "org1" \in DOMAIN notificationConfigs
    /\ \A j \in DOMAIN notificationConfigs["org1"] : ~ notificationConfigs["org1"][j].enabled
    /\ \E id \in Dispatched : StatusOfTransition(id) = "OFFLINE"
    /\ deliveries = {}

\* the task's sendDeviceStatusNotification ends in this step
EndsNow(t) == t \in tasks /\ \A n \in tasks' : ~ (n.call = t.call /\ n.ev = t.ev)

SeverityOf(priority) ==
    CASE priority = "CRITICAL" -> "critical"
      [] priority = "HIGH" -> "error"
      [] priority = "MEDIUM" -> "warning"
      [] priority = "LOW" -> "info"

AuditRows(log, t) == {a \in log : a.call = t.call /\ a.ev = t.ev}

\* C26: the dispatch of a message ends with its audit record: the step that ends the
\* notification task of a matched transition writes the one audit record of the message,
\* none was there before, every channel of the config has had its delivery attempt, and
\* the level of the record follows from the priority of the config: CRITICAL critical,
\* HIGH error, MEDIUM warning, LOW info.
C26_AuditedOnceAfterDelivery ==
    [][ \A t \in tasks :
            (EndsNow(t) /\ Matched(t)) =>
                LET cfgs == GetNotificationConfigs(notificationConfigs,
                                                   OrganizationOf(t.dev))
                    hits == {j \in DOMAIN cfgs : /\ cfgs[j].type = NotificationType(t.status)
                                                 /\ cfgs[j].enabled}
                    cfg == cfgs[CHOOSE j \in hits : \A k \in hits : j <= k]
                IN  /\ AuditRows(audit, t) = {}
                    /\ AuditRows(audit', t) =
                           {[call |-> t.call, ev |-> t.ev, level |-> SeverityOf(cfg.priority)]}
                    /\ audit' \ audit = AuditRows(audit', t)
                    /\ deliveries' = deliveries
                    /\ \A ch \in Range(cfg.channels) :
                           \E r \in deliveries :
                               r.call = t.call /\ r.ev = t.ev /\ r.channel = ch
      ]_vars

\* a message of priority HIGH has had its delivery attempts on two channels and is in
\* the audit log as an error
C26_Witness ==
    \E a \in audit :
        /\ a.level = "error"
        /\ \A t \in tasks : ~ (t.call = a.call /\ t.ev = a.ev)
        /\ Cardinality({r \in deliveries : r.call = a.call /\ r.ev = a.ev}) = 2

(***************************************************************************)
(* Properties of the MQTT adapter.                                         *)
(***************************************************************************)
\* the status a message asks for, "" when it asks for none
StatusAskedFor(leaf, payload) ==
    CASE leaf = "lwt" -> "OFFLINE"
      [] leaf = "status" /\ payload = "online" -> "ONLINE"
      [] leaf = "status" /\ payload = "offline" -> "OFFLINE"
      [] OTHER -> ""

\* C27: when a last-will message, or a status message with payload 'online' or
\* 'offline', arrives on the topic of a known device, setDeviceStatus is invoked for
\* that device with the status the message asks for and protocol MQTT.
C27_WillInvokesOffline ==
    [][ \A d \in KnownDevices, leaf \in {"status", "lwt"}, payload \in MqttPayloads :
            (MqttMessage(Topic(d, leaf), payload) /\ StatusAskedFor(leaf, payload) # "") =>
                \E c \in calls' \ calls :
                    /\ c.dev = d
                    /\ c.status = StatusAskedFor(leaf, payload)
                    /\ c.protocol = "MQTT"
      ]_vars

(***************************************************************************)
(* Properties of the record across signals and devices.                    *)
(***************************************************************************)
\* C28: setDeviceStatus merges the signal into the record the device has: a client
\* handle the signal does not supply stays as it was, and so does every metadata key
\* of the record.  Stated for a call that is the latest and the only one in flight.
C28_UnsuppliedFieldsKept ==
    [][ \A c \in calls :
            (AppliedNow(c) /\ HasRecord(c.dev) /\ calls = {c} /\ c.id = callSeq) =>
                /\ c.info.clientId = "" =>
                       deviceConnections'[c.dev].clientId = deviceConnections[c.dev].clientId
                /\ deviceConnections[c.dev].metadata \subseteq
                       deviceConnections'[c.dev].metadata
      ]_vars

\* the step leaves the record and the timer of every device but d as they are and
\* publishes no event for any device but d
OthersUntouched(d) ==
    \A e \in Devices \ {d} :
        /\ (e \in DOMAIN deviceConnections') = (e \in DOMAIN deviceConnections)
        /\ e \in DOMAIN deviceConnections => deviceConnections'[e] = deviceConnections[e]
        /\ (e \in DOMAIN heartbeatIntervals') = (e \in DOMAIN heartbeatIntervals)
        /\ e \in DOMAIN heartbeatIntervals => heartbeatIntervals'[e] = heartbeatIntervals[e]
        /\ \A i \in DOMAIN NewOnBus : NewOnBus[i].dev # e

\* C29: a step of setDeviceStatus for device d (its invocation, its rejection for an
\* unknown device, the storing of the record, the two store writes, the publication),
\* an updateDeviceActivity for d and a heartbeat callback of d change the record and the
\* timer of no other device and publish no event for another device.
C29_OtherDevicesUntouched ==
    [][ /\ \A d \in Devices, s \in Signals :
               SetStatus(d, s[1], s[2], s[3]) => OthersUntouched(d)
        /\ \A d \in Devices, m \in ActivityPatches :
               UpdateDeviceActivity(d, m) => OthersUntouched(d)
        /\ \A d \in Devices : HeartbeatTick(d) => OthersUntouched(d)
        /\ \A c \in calls :
               (\/ Reject(c)
                \/ Apply(c)
                \/ LogConnectionStatus(c)
                \/ UpdateDeviceStatus(c)
                \/ EmitStatusChange(c)) => OthersUntouched(c.dev)
      ]_vars

\* both devices have a record: one has been set OFFLINE, which was published and left
\* it without a timer, and the other is ONLINE with its timer
C29_Witness ==
    /\ DOMAIN deviceConnections = Devices
    /\ \E d \in Devices :
           /\ deviceConnections[d].status = "OFFLINE"
           /\ d \notin DOMAIN heartbeatIntervals
           /\ \E i \in DOMAIN bus : bus[i].dev = d /\ bus[i].status = "OFFLINE"
           /\ \A e \in Devices \ {d} :
                  /\ deviceConnections[e].status = "ONLINE"
                  /\ e \in DOMAIN heartbeatIntervals

\* C30: the INACTIVE transition of a heartbeat callback is applied to an ONLINE record
\* only.  Stated for a heartbeat call that is the only call in flight.
C30_InactiveOnlyFromOnline ==
    [][ \A c \in calls :
            (AppliedNow(c) /\ c.origin = "heartbeat" /\ calls = {c}) =>
                OldStatus(deviceConnections, c.dev) = "ONLINE"
      ]_vars

(***************************************************************************)
(* Properties of calls that overtake each other.                           *)
(***************************************************************************)
\* C31: when the INACTIVE transition of a heartbeat callback is applied, the record it
\* replaces is still stale: activity recorded since the callback's check is not
\* overwritten with the lastActivityAt the callback read.
C31_TickReplacesStaleRecordOnly ==
    [][ \A c \in calls :
            (AppliedNow(c) /\ c.origin = "heartbeat" /\ HasRecord(c.dev)) =>
                /\ Stale(deviceConnections[c.dev], now)
                /\ deviceConnections'[c.dev].lastActivityAt >=
                       deviceConnections[c.dev].lastActivityAt
      ]_vars

\* the status of the event published last for device d, "none" when none was published
LastPublished(d) ==
    LET of == {i \in DOMAIN bus : bus[i].dev = d}
    IN  IF of = {} THEN "none"
        ELSE bus[CHOOSE i \in of : \A j \in of : j <= i].status

\* C32: events of a device are published in the order in which its record was written:
\* whenever no setDeviceStatus call for the device is in flight and an event was
\* published for it, the event published last carries the status of its record.
C32_LastEventMatchesRecord ==
    \A d \in Devices :
        (/\ HasRecord(d)
         /\ \A c \in calls : c.dev # d
         /\ LastPublished(d) # "none") =>
            LastPublished(d) = deviceConnections[d].status

(***************************************************************************)
(* Properties of the WebSocket adapter.                                    *)
(***************************************************************************)
\* C33: a device was brought ONLINE by a client and no other connect has replaced its
\* record; when the client disconnects, setDeviceStatus is invoked to set the device
\* OFFLINE, also when the heartbeat callback has made it INACTIVE in between.  Stated
\* for a disconnect that arrives while no call is in flight.
C33_DisconnectSetsOffline ==
    [][ \A h \in ClientHandles, d \in KnownDevices :
            (/\ Disconnect(h)
             /\ calls = {}
             /\ HasRecord(d)
             /\ deviceConnections[d].status \in {"ONLINE", "INACTIVE"}) =>
                \E c \in calls' : c.dev = d /\ c.status = "OFFLINE"
      ]_vars

(***************************************************************************)
(* Properties of the records and of the counts over them.                  *)
(***************************************************************************)
\* C34: in every reachable state a record that is ONLINE has connectedAt and a sessionId
\* and no disconnectedAt, a record that is OFFLINE has disconnectedAt, and a
\* connectionDuration that is present is not negative.
C34_RecordFieldsFitStatus ==
    \A d \in Devices :
        HasRecord(d) =>
            LET conn == deviceConnections[d]
            IN  /\ conn.status = "ONLINE" =>
                       /\ conn.connectedAt # Undefined
                       /\ conn.sessionId # Undefined
                       /\ conn.disconnectedAt = Undefined
                /\ conn.status = "OFFLINE" => conn.disconnectedAt # Undefined
                /\ conn.connectionDuration # Undefined => conn.connectionDuration >= 0

\* a device that went OFFLINE, which was published, is ONLINE again and no call is
\* in flight
C34_Witness ==
    /\ calls = {}
    /\ HasRecord("d1")
    /\ deviceConnections["d1"].status = "ONLINE"
    /\ \E i \in DOMAIN bus : bus[i].dev = "d1" /\ bus[i].status = "OFFLINE"

\* C35: a setStatus call that leaves the status of the record as it found it writes no
\* connection-log row: rows are written once per transition.  Stated for a call that is
\* the only one in flight.
C35_UnchangedStatusWritesNoRow ==
    [][ \A c \in calls :
            (calls = {c} /\ c.pc = "log" /\ c.old = c.status) => connLog' = connLog
      ]_vars

RECURSIVE SumOver(_, _)
SumOver(f, S) ==
    IF S = {} THEN 0
    ELSE LET x == CHOOSE y \in S : TRUE IN f[x] + SumOver(f, S \ {x})

OnlineRecords == {d \in DOMAIN deviceConnections : deviceConnections[d].status = "ONLINE"}

\* C36: at every instant getOnlineDeviceCount is the number of records that are ONLINE
\* and is the sum over the protocols of getDeviceConnectionStatsByProtocol, which counts
\* for each protocol its ONLINE records: a record that is OFFLINE, INACTIVE or ERROR is
\* counted by neither.
C36_CountsAgree ==
    LET stats == GetDeviceConnectionStatsByProtocol(deviceConnections)
    IN  /\ GetOnlineDeviceCount(deviceConnections) = Cardinality(OnlineRecords)
        /\ GetOnlineDeviceCount(deviceConnections) = SumOver(stats, DeviceProtocol)
        /\ \A p \in DeviceProtocol :
               stats[p] = Cardinality({d \in OnlineRecords :
                                           deviceConnections[d].protocol = p})

\* both devices have a record: one is ONLINE over WebSocket and is counted, the other
\* is not ONLINE and is not
C36_Witness ==
    /\ DOMAIN deviceConnections = Devices
    /\ \E d \in Devices :
           /\ deviceConnections[d].status = "ONLINE"
           /\ deviceConnections[d].protocol = "WEBSOCKET"
           /\ \A e \in Devices \ {d} : deviceConnections[e].status # "ONLINE"
    /\ GetOnlineDeviceCount(deviceConnections) = 1
    /\ GetDeviceConnectionStatsByProtocol(deviceConnections)["WEBSOCKET"] = 1

====
